---- MODULE Spec2Model ----
(***************************************************************************)
(* Model of the batch-sync engine of sql-database-to-elastic-datalake:     *)
(* the value sanitizer (src/src/document_utils.py), the index connector    *)
(* (src/src/es_connector.py), the per-kind passes and the orchestrator     *)
(* (src/src/data_sync.py), and the denormalized ticket pass in its two     *)
(* versions (src/src/ticket_sync.py and the older src/ticket_sync.py).     *)
(***************************************************************************)
EXTENDS Integers, Sequences, FiniteSets, TLC

VARIABLES
    orch,             \* sync_all_tables: "direct" (a pass called on its own), "idle", "running", "done"
    kind,             \* index in Kinds of the pass in progress (0 before the first)
    pc,               \* position of the pass in progress ("Aborted": it logged an error and
                      \* returned before its batch loop; "Failed": it raised)
    es,               \* index store: index name -> [exists, docs, visible]
    clock,            \* source of datetime.utcnow()
    df,               \* rows extracted by the pass
    total_count,      \* len(df)
    batch_size,       \* effective batch size of the pass
    batch_start,      \* loop variable of the batch loop
    bulk_actions,     \* actions prepared for the batch in progress
    successful_docs,  \* counter of the pass
    failed_docs,      \* counter of the pass
    index_timestamp,  \* timestamp taken once per pass
    final_count,      \* count read by the reconciliation (-1 before)
    log,              \* messages logged so far
    attempted,        \* kinds whose pass has been started
    sent,             \* number of bulk requests issued by the pass
    last_bulk,        \* answer of the client to the latest bulk request
    cfg,              \* configuration and scenario: [batch_size, max_rows per kind, values, variant, empty_raises]
    db,               \* the relational source read by the ticket pass
    run,              \* number of the pass over the source (1 or 2)
    prev_df,          \* ticket rows extracted by the previous pass
    trace,            \* calls made so far to the index connector, in order
    call              \* a sanitizer called on its own: [step, variant, empty_raises, arg, once, twice]

vars == <<orch, kind, pc, es, clock, df, total_count, batch_size, batch_start,
          bulk_actions, successful_docs, failed_docs, index_timestamp,
          final_count, log, attempted, sent, last_bulk, cfg, db, run, prev_df, trace, call>>

----------------------------------------------------------------------------
(* Bounds *)

MaxRows == 3          \* rows of a table in a single-pass run
MaxRowsAll == 2       \* rows of a table in an orchestrated run
MaxHist == 2          \* rows of the TicketStatus history
MaxTime == 2          \* distinct createdAt values of the history
MaxLabels == 2        \* rows of the TicketLabel join table
MaxFields == 2        \* fields of a document handed to a sanitizer on its own
MaxEnsure == 2        \* calls of ensure_index_exists

(* Program constants *)

BatchSizeCap == 50
DefaultBatchSize == 1000

----------------------------------------------------------------------------
(* Values: a Python value is [t: type tag, s: payload, items: children].   *)
(* A child is [k: key, v: value]; list elements have the key "".           *)

Leaf(t, s) == [t |-> t, s |-> s, items |-> <<>>]
List(xs) == [t |-> "list", s |-> <<>>,
             items |-> [i \in DOMAIN xs |-> [k |-> "", v |-> xs[i]]]]
Dict(kvs) == [t |-> "dict", s |-> <<>>, items |-> kvs]
KV(k, v) == [k |-> k, v |-> v]
None == Leaf("null", <<>>)

\* a dictionary key that is not a str/int/float/bool/None (a tuple, bytes)
NonStrKey == "<non-str key>"

\* the outcome of a try body that raised
Raised == Leaf("<raised>", <<>>)

\* np.ndarray / pd.Series of the given elements (of the given rows, when
\* it has two dimensions; rows are not empty)
Array(xs) == [t |-> "ndarray", s |-> <<>>,
              items |-> [i \in DOMAIN xs |-> [k |-> "", v |-> xs[i]]]]

\* v is None or pd.isna(v), for a scalar v
IsNa(v) == v.t \in {"null", "nan", "nat", "npnan"}

RECURSIVE array_size(_)
RECURSIVE sizes_upto(_, _)
sizes_upto(v, n) ==
    IF n = 0 THEN 0 ELSE sizes_upto(v, n - 1) + array_size(v.items[n].v)

\* v.size
array_size(v) == IF v.t = "ndarray" THEN sizes_upto(v, Len(v.items)) ELSE 1

RECURSIVE item_of(_)
\* x.item() if hasattr(x, 'item') else x
item_of(x) ==
    CASE x.t \in {"npint", "npfloat"} -> Leaf("num", x.s)
      [] x.t = "npbool" -> Leaf("bool", x.s)
      [] x.t = "npnan" -> Leaf("nan", x.s)
      [] x.t = "ndarray" /\ Len(x.items) = 1 -> item_of(x.items[1].v)
      [] OTHER -> x

\* a byte, or byte sequence, that is not valid UTF-8
InvalidByte == "\\xff"

\* bytes.decode('utf-8', errors='ignore'): what cannot be decoded is left out
decode_ignore(bs) == SelectSeq(bs, LAMBDA b : b # InvalidByte)

\* a str whose text is the JSON encoding of the value v
JsonText(v) == [t |-> "str", s |-> <<"json of">>, items |-> <<KV("", v)>>]

\* json.loads raised json.JSONDecodeError
JSONDecodeError == Leaf("<JSONDecodeError>", <<>>)

\* json.loads(x) of a str x: the encoded value, or JSONDecodeError when the
\* text is not JSON
json_loads(x) ==
    IF x.s = <<"json of">> /\ Len(x.items) = 1 THEN x.items[1].v ELSE JSONDecodeError

RECURSIVE sanitize_document(_)
RECURSIVE sanitize_value(_)
RECURSIVE field_coercion(_)

\* the try body of the loop of sanitize_document for one field value v:
\* the value assigned to sanitized[k], or Raised
field_coercion(v) ==
    CASE v.t = "ndarray" /\ array_size(v) = 0 -> List(<<>>)
      [] v.t = "ndarray" /\ array_size(v) = 1 ->
            IF IsNa(item_of(v)) THEN None ELSE item_of(v)
      [] v.t = "ndarray" /\ array_size(v) >= 2 ->
            \* pd.isna(x) of a row x of two or more elements has no truth value
            IF \E i \in DOMAIN v.items : v.items[i].v.t = "ndarray"
                                         /\ array_size(v.items[i].v) >= 2
            THEN Raised
            ELSE List([i \in DOMAIN v.items |->
                         IF IsNa(item_of(v.items[i].v)) THEN None
                         ELSE item_of(v.items[i].v)])
      [] IsNa(v) -> None
      [] v.t \in {"npint", "npfloat"} -> Leaf("num", v.s)
      [] v.t = "npbool" -> Leaf("bool", v.s)
      [] v.t = "uuid" -> Leaf("str", v.s)
      [] v.t = "ts" -> Leaf("str", v.s)
      [] v.t = "bytes" -> Leaf("str", decode_ignore(v.s))
      [] v.t = "dict" -> sanitize_document(v)
      [] v.t = "list" ->
            [v EXCEPT !.items = [i \in DOMAIN v.items |->
                 KV("", sanitize_document(v.items[i].v))]]
      [] OTHER -> v

\* the loop body without its except clause
sanitize_value_uncaught(v) == field_coercion(v)

\* a loop body that unwraps a one-element list as it does a one-element array
sanitize_value_unwrap(v) ==
    IF v.t = "list" /\ Len(v.items) = 1 THEN v.items[1].v
    ELSE IF field_coercion(v) = Raised THEN None ELSE field_coercion(v)

\* the loop body of sanitize_document for one field value v:
\* "except Exception: sanitized[k] = None"
sanitize_value(v) ==
    IF field_coercion(v) = Raised THEN None ELSE field_coercion(v)

sanitize_document(doc) ==
    IF doc.t # "dict" THEN doc
    ELSE [doc EXCEPT !.items = [i \in DOMAIN doc.items |->
             KV(doc.items[i].k, sanitize_value(doc.items[i].v))]]

\* json.dumps(v, cls=CustomJSONEncoder) succeeds
RECURSIVE StrictSerializable(_)
StrictSerializable(v) ==
    CASE v.t \in {"str", "num", "bool", "null", "nan", "npfloat", "npnan"} -> TRUE
      [] v.t \in {"uuid", "ts", "datetime", "nat"} -> TRUE
      [] v.t = "list" -> \A i \in DOMAIN v.items : StrictSerializable(v.items[i].v)
      [] v.t = "dict" -> \A i \in DOMAIN v.items :
                            /\ v.items[i].k # NonStrKey
                            /\ StrictSerializable(v.items[i].v)
      [] OTHER -> FALSE

\* json.dumps(v, default=str) succeeds
RECURSIVE FallbackSerializable(_)
FallbackSerializable(v) ==
    CASE v.t \in {"list", "dict"} -> \A i \in DOMAIN v.items :
                            /\ v.items[i].k # NonStrKey
                            /\ FallbackSerializable(v.items[i].v)
      [] OTHER -> TRUE

\* json.loads(json.dumps(v, default=str))
RECURSIVE FallbackResult(_)
FallbackResult(v) ==
    CASE v.t \in {"str", "num", "bool", "null", "nan"} -> v
      [] v.t \in {"npfloat"} -> Leaf("num", v.s)
      [] v.t = "npnan" -> Leaf("nan", v.s)
      [] v.t \in {"list", "dict"} ->
            [v EXCEPT !.items = [i \in DOMAIN v.items |->
                 KV(v.items[i].k, FallbackResult(v.items[i].v))]]
      [] v.t = "bytes" -> Leaf("str", <<"b'">> \o v.s \o <<"'">>)
      [] OTHER -> Leaf("str", v.s)

\* a tree of strings, numbers, booleans, null, objects and arrays only
RECURSIVE JsonSafe(_)
JsonSafe(v) ==
    CASE v.t \in {"str", "num", "bool", "null"} -> TRUE
      [] v.t \in {"list", "dict"} -> \A i \in DOMAIN v.items :
                            /\ v.items[i].k # NonStrKey
                            /\ JsonSafe(v.items[i].v)
      [] OTHER -> FALSE

----------------------------------------------------------------------------
(* Row values a table column can deliver *)

FieldValues ==
    { Leaf("str", <<"x">>),                          \* text
      Leaf("uuid", <<"u">>),                         \* uuid.UUID
      Leaf("decimal", <<"1.5">>),                    \* decimal.Decimal (numeric column)
      Leaf("datetime", <<"d">>),                     \* datetime.datetime (object column)
      List(<<Leaf("uuid", <<"u">>)>>),               \* uuid[] column
      Dict(<<KV(NonStrKey, Leaf("str", <<"x">>))>>)  \* mapping with a non-string key
    }

\* the values an orchestrated run draws from
PlainValues == { Leaf("str", <<"x">>) }

Rows(n, values) == [1..n -> values]

----------------------------------------------------------------------------
(* Index store: src/src/es_connector.py *)

Kinds == <<"data_sources", "users", "modules", "statuses", "labels">>
TicketKind == Len(Kinds) + 1
IndexIds == 1..TicketKind

Min(a, b) == IF a < b THEN a ELSE b

\* gen counts the times the index has been created
AbsentIndex == [exists |-> FALSE, docs |-> {}, visible |-> {}, gen |-> 0]
\* an index left by an earlier pass, holding one searchable document
OldIndex == [exists |-> TRUE, docs |-> {<<"old", "_", "0">>},
             visible |-> {<<"old", "_", "0">>}, gen |-> 1]

\* create_index that keeps an index that already exists
create_index_keep(store, name, fault) ==
    CASE fault = "exists" -> [store |-> store, raised |-> TRUE]
      [] store[name].exists -> [store |-> store, raised |-> FALSE]
      [] fault = "create" -> [store |-> store, raised |-> TRUE]
      [] OTHER ->
            [store |-> [store EXCEPT ![name] =
                          [exists |-> TRUE, docs |-> {}, visible |-> {}, gen |-> @.gen + 1]],
             raised |-> FALSE]

\* ElasticsearchConnector.create_index; fault names the client call that
\* raises: "none", "exists", "delete" or "create"
create_index(store, name, fault) ==
    CASE fault = "exists" -> [store |-> store, raised |-> TRUE]
      [] fault = "delete" /\ store[name].exists -> [store |-> store, raised |-> TRUE]
      [] fault = "create" ->
            [store |-> [store EXCEPT ![name] =
                          [exists |-> FALSE, docs |-> {}, visible |-> {}, gen |-> @.gen]],
             raised |-> TRUE]
      [] OTHER ->
            [store |-> [store EXCEPT ![name] =
                          [exists |-> TRUE, docs |-> {}, visible |-> {}, gen |-> @.gen + 1]],
             raised |-> FALSE]

\* bulk_index that drops the list of rejected items
bulk_index_no_failed(store, name, actions, refresh, resp) ==
    IF resp.raised
    THEN [store |-> store, success |-> 0, failed |-> 0]
    ELSE LET docs == store[name].docs \cup {actions[i]._id : i \in resp.accepted}
         IN [store |-> [store EXCEPT ![name] =
                          [exists |-> TRUE, docs |-> docs,
                           visible |-> IF refresh THEN docs ELSE @.visible,
                           gen |-> @.gen]],
             success |-> Cardinality(resp.accepted),
             failed |-> 0]

\* a bulk_index that empties the index when the bulk request raises
bulk_index_rollback(store, name, actions, refresh, resp) ==
    IF resp.raised
    THEN [store |-> [store EXCEPT ![name] =
                       [exists |-> TRUE, docs |-> {}, visible |-> {}, gen |-> @.gen]],
          success |-> 0, failed |-> 0]
    ELSE LET docs == store[name].docs \cup {actions[i]._id : i \in resp.accepted}
         IN [store |-> [store EXCEPT ![name] =
                          [exists |-> TRUE, docs |-> docs,
                           visible |-> IF refresh THEN docs ELSE @.visible,
                           gen |-> @.gen]],
             success |-> Cardinality(resp.accepted),
             failed |-> Len(actions) - Cardinality(resp.accepted)]

\* ElasticsearchConnector.bulk_index; resp is the answer of the client:
\* resp.raised (a transport exception) or the set resp.accepted of the
\* positions of the actions the index accepted
bulk_index(store, name, actions, refresh, resp) ==
    IF resp.raised
    THEN [store |-> store, success |-> 0, failed |-> 0]
    ELSE LET docs == store[name].docs \cup {actions[i]._id : i \in resp.accepted}
         IN [store |-> [store EXCEPT ![name] =
                          [exists |-> TRUE, docs |-> docs,
                           visible |-> IF refresh THEN docs ELSE @.visible,
                           gen |-> @.gen]],
             success |-> Cardinality(resp.accepted),
             failed |-> Len(actions) - Cardinality(resp.accepted)]

\* ElasticsearchConnector.get_document_count
get_document_count(store, name, raised) ==
    IF raised THEN 0 ELSE Cardinality(store[name].visible)

----------------------------------------------------------------------------
(* One pass of one entity kind: src/src/data_sync.py sync_data_sources,    *)
(* sync_users, sync_modules, sync_statuses, sync_labels                    *)

IdField == <<"data_source_id", "user_id", "module_id", "status_id", "label_id">>
ValueField == <<"data_source_dataMap", "user_preferences", "module_description",
                "status_description", "label_description">>

\* a document id without the timestamp of the pass
document_id_undated(id, ts) == <<id>>

\* f"{id}_{index_timestamp}"
document_id(id, ts) == <<id, "_", ts>>

\* the document built from one row, before sanitization
build_doc(k, row, ts) ==
    Dict(<< KV(IdField[k], Leaf("str", <<row.id>>)),
            KV(ValueField[k], row.val),
            KV("indexed_at", Leaf("str", <<ts>>)),
            KV("document_id", Leaf("str", document_id(row.id, ts))) >>)

\* a serializability check that gives up on a document without the fallback
serialize_check_strict_only(sanitized_doc) ==
    IF StrictSerializable(sanitized_doc)
    THEN [ok |-> TRUE, source |-> sanitized_doc]
    ELSE [ok |-> FALSE, source |-> None]

\* the serializability check and its fallback for one sanitized document:
\* the _source that goes into the action, or "failed"
serialize_check(sanitized_doc) ==
    IF StrictSerializable(sanitized_doc)
    THEN [ok |-> TRUE, source |-> sanitized_doc]
    ELSE IF FallbackSerializable(sanitized_doc)
         THEN [ok |-> TRUE, source |-> FallbackResult(sanitized_doc)]
         ELSE [ok |-> FALSE, source |-> None]

\* row loop body that skips an unserializable document without counting it
row_step_uncounted(acc, sanitized_doc, doc_id) ==
    LET chk == serialize_check(sanitized_doc)
    IN IF chk.ok
       THEN [actions |-> Append(acc.actions,
                                [_id |-> doc_id, _source |-> chk.source]),
             failed |-> acc.failed]
       ELSE [actions |-> acc.actions, failed |-> acc.failed]

\* the body of the row loop: the actions and the failure count after row
row_step(acc, sanitized_doc, doc_id) ==
    LET chk == serialize_check(sanitized_doc)
    IN IF chk.ok
       THEN [actions |-> Append(acc.actions,
                                [_id |-> doc_id, _source |-> chk.source]),
             failed |-> acc.failed]
       ELSE [actions |-> acc.actions, failed |-> acc.failed + 1]

RECURSIVE map_batch(_, _, _, _, _)
\* the row loop over rows lo+1..hi of the table
map_batch(k, rows, lo, hi, ts) ==
    IF hi <= lo THEN [actions |-> <<>>, failed |-> 0]
    ELSE row_step(map_batch(k, rows, lo, hi - 1, ts),
                  sanitize_document(build_doc(k, rows[hi], ts)),
                  document_id(rows[hi].id, ts))

batch_end == Min(batch_start + batch_size, total_count)

\* the configured batch size used as it is
effective_batch_size_uncapped(configured) == configured

effective_batch_size(configured) == Min(configured, BatchSizeCap)

TableOf(vals) == [i \in DOMAIN vals |-> [id |-> ToString(i), val |-> vals[i]]]

NoAnswer == [raised |-> FALSE, accepted |-> {}]

ResetLocals ==
    /\ df' = <<>>
    /\ total_count' = 0
    /\ batch_size' = 0
    /\ batch_start' = 0
    /\ bulk_actions' = <<>>
    /\ successful_docs' = 0
    /\ failed_docs' = 0
    /\ index_timestamp' = ""
    /\ final_count' = -1
    /\ sent' = 0
    /\ last_bulk' = NoAnswer

\* the calls a pass makes to the index connector, as recorded in trace
CreateCall(k) == <<"create_index", k>>
BulkCall(k, refresh) == <<"bulk_index", k, refresh>>
CountCall(k) == <<"get_document_count", k>>
IndexCall(k) == <<"index", k, TRUE>>

\* "if batch_start % (batch_size * 5) == 0 or batch_end == total_count:
\*  count = self.es_connector.get_document_count(index_name)"
progress_count ==
    IF batch_start % (batch_size * 5) = 0 \/ batch_end = total_count
    THEN <<CountCall(kind)>> ELSE <<>>

\* self.es_connector.create_index(index_name, mapping) at the start of a pass
CreateIndex ==
    /\ orch \in {"direct", "running"}
    /\ pc = "Idle"
    /\ kind \in IndexIds
    /\ \E fault \in {"none", "exists", "delete", "create"} :
          LET r == create_index(es, kind, fault)
          IN /\ es' = r.store
             /\ pc' = IF r.raised THEN "Failed" ELSE "Extracting"
    /\ attempted' = attempted \cup {kind}
    /\ trace' = Append(trace, CreateCall(kind))
    /\ UNCHANGED <<orch, kind, clock, df, total_count, batch_size, batch_start,
                   bulk_actions, successful_docs, failed_docs, index_timestamp,
                   final_count, log, sent, last_bulk, cfg, db, run, prev_df, call>>

\* df = self.db_connector.get_<kind>() up to the start of the batch loop
Extract ==
    /\ pc = "Extracting"
    /\ kind \in 1..Len(Kinds)
    /\ \E n \in 0..cfg.max_rows[kind] : \E vals \in Rows(n, cfg.values) :
          IF n = 0
          THEN /\ log' = log \cup {"error: nothing available to sync"}
               /\ pc' = "Aborted"
               /\ UNCHANGED <<df, total_count, batch_size, index_timestamp, clock>>
          ELSE /\ df' = TableOf(vals)
               /\ total_count' = n
               /\ batch_size' = effective_batch_size(cfg.batch_size)
               /\ index_timestamp' = ToString(clock)
               /\ clock' = clock + 1
               /\ pc' = "MappingBatch"
               /\ UNCHANGED log
    /\ batch_start' = 0
    /\ successful_docs' = 0
    /\ failed_docs' = 0
    /\ UNCHANGED <<orch, kind, es, bulk_actions, final_count, attempted, sent, last_bulk, cfg, db, run, prev_df, trace, call>>

\* the row loop of one batch
MapBatch ==
    /\ pc = "MappingBatch"
    /\ kind \in 1..Len(Kinds)
    /\ LET m == map_batch(kind, df, batch_start, batch_end, index_timestamp)
       IN /\ bulk_actions' = m.actions
          /\ failed_docs' = failed_docs + m.failed
    /\ pc' = "Upserting"
    /\ UNCHANGED <<orch, kind, es, clock, df, total_count, batch_size, batch_start,
                   successful_docs, index_timestamp, final_count, log, attempted,
                   sent, last_bulk, cfg, db, run, prev_df, trace, call>>

\* a refresh asked with every bulk request
refresh_flag_always == TRUE

\* refresh=(batch_end == total_count)
refresh_flag == batch_end = total_count

\* a bulk request only for a batch in which every row was mapped
bulk_request_full_batch(actions) == Len(actions) = batch_end - batch_start

\* "if bulk_actions:"
bulk_request(actions) == actions # <<>>

\* a batch loop that goes on while batch_start has not passed total_count
loop_continues_inclusive == batch_start + batch_size <= total_count

\* range(0, total_count, batch_size) has another element
loop_continues == batch_start + batch_size < total_count

\* "if bulk_actions: bulk_index(...)" and the end of the loop body
Upsert ==
    /\ pc = "Upserting"
    /\ cfg.variant = "package"
    /\ IF bulk_request(bulk_actions)
       THEN \E raised \in BOOLEAN : \E accepted \in SUBSET (1..Len(bulk_actions)) :
              /\ raised => accepted = {}
              /\ LET r == bulk_index(es, kind, bulk_actions, refresh_flag,
                                     [raised |-> raised, accepted |-> accepted])
                 IN /\ es' = r.store
                    /\ successful_docs' = successful_docs + r.success
                    /\ failed_docs' = failed_docs + r.failed
              /\ sent' = sent + 1
              /\ last_bulk' = [raised |-> raised, accepted |-> accepted]
       ELSE UNCHANGED <<es, successful_docs, failed_docs, sent, last_bulk>>
    /\ trace' = trace \o (IF bulk_request(bulk_actions)
                           THEN <<BulkCall(kind, refresh_flag)>> ELSE <<>>)
                     \o progress_count
    /\ batch_start' = batch_start + batch_size
    /\ pc' = IF loop_continues THEN "MappingBatch" ELSE "Reconciling"
    /\ UNCHANGED <<orch, kind, clock, df, total_count, batch_size, bulk_actions,
                   index_timestamp, final_count, log, attempted, cfg, db, run, prev_df, call>>

\* reconciliation that warns whenever the count differs from the total
reconcile_message_warn_zero(count, total) ==
    IF count < total THEN "warning: only some documents were indexed"
    ELSE "info: all documents were indexed"

\* the message the reconciliation logs for a final count
reconcile_message(count, total) ==
    IF count = 0 THEN "error: no documents were indexed"
    ELSE IF count < total THEN "warning: only some documents were indexed"
    ELSE "info: all documents were indexed"

\* "Verify the documents were indexed", to the return of the pass
Reconcile ==
    /\ pc = "Reconciling"
    /\ cfg.variant = "package"
    /\ \E raised \in BOOLEAN :
          LET c == get_document_count(es, kind, raised)
          IN /\ final_count' = c
             /\ log' = log \cup {reconcile_message(c, total_count)}
    /\ trace' = Append(trace, CountCall(kind))
    /\ pc' = "Done"
    /\ UNCHANGED <<orch, kind, es, clock, df, total_count, batch_size, batch_start,
                   bulk_actions, successful_docs, failed_docs, index_timestamp,
                   attempted, sent, last_bulk, cfg, db, run, prev_df, call>>

\* the index store's periodic refresh (settings.refresh_interval)
EsRefresh ==
    /\ pc \in {"MappingBatch", "Upserting", "Reconciling"}
    /\ es[kind].visible # es[kind].docs
    /\ es' = [es EXCEPT ![kind].visible = es[kind].docs]
    /\ UNCHANGED <<orch, kind, pc, clock, df, total_count, batch_size, batch_start,
                   bulk_actions, successful_docs, failed_docs, index_timestamp,
                   final_count, log, attempted, sent, last_bulk, cfg, db, run, prev_df, trace, call>>

----------------------------------------------------------------------------
(* The orchestrator: src/src/data_sync.py sync_all_tables *)

\* entering the try block: the first pass is called
StartAll ==
    /\ orch = "idle"
    /\ orch' = "running"
    /\ kind' = 1
    /\ pc' = "Idle"
    /\ log' = log \cup {"info: starting data sync"}
    /\ UNCHANGED <<es, clock, df, total_count, batch_size, batch_start,
                   bulk_actions, successful_docs, failed_docs, index_timestamp,
                   final_count, attempted, sent, last_bulk, cfg, db, run, prev_df, trace, call>>

\* a call of the next pass made while the batch loop of the current one runs
pass_returned_mid_loop == pc \in {"Done", "Aborted", "Upserting"}

\* the call sync_<kind>() has returned: after its final count, or at the
\* early return of an empty extraction
pass_returned == pc \in {"Done", "Aborted"}

\* a pass returned: the next statement of the try block
NextKind ==
    /\ orch = "running"
    /\ pass_returned
    /\ IF kind < Len(Kinds)
       THEN /\ kind' = kind + 1
            /\ pc' = "Idle"
            /\ UNCHANGED <<orch, log>>
       ELSE /\ orch' = "done"
            /\ log' = log \cup {"info: completed data sync"}
            /\ UNCHANGED <<kind, pc>>
    /\ ResetLocals
    /\ UNCHANGED <<es, clock, attempted, cfg, db, run, prev_df, trace, call>>

\* a pass raised: "except Exception as e" of sync_all_tables
CatchAll ==
    /\ orch = "running"
    /\ pc = "Failed"
    /\ orch' = "done"
    /\ log' = log \cup {"error: error during data sync"}
    /\ UNCHANGED <<kind, pc, es, clock, df, total_count, batch_size, batch_start,
                   bulk_actions, successful_docs, failed_docs, index_timestamp,
                   final_count, attempted, sent, last_bulk, cfg, db, run, prev_df, trace, call>>

----------------------------------------------------------------------------
(* The relational source of the ticket pass:                               *)
(* src/src/db_connector.py get_tickets_and_labels                          *)

Uuid(id) == Leaf("uuid", <<id>>)
Str(x) == Leaf("str", <<x>>)
NameOf(id) == Leaf("str", <<"name of", id>>)
Ref(id) == IF id = "" THEN None ELSE Uuid(id)
RefName(id) == IF id = "" THEN None ELSE NameOf(id)

\* Label.color: NULL for L2
LabelColor(l) == IF l = "L2" THEN None ELSE Str("red")

\* ts."deletedAt" IS NULL (the join with Status keeps every such row)
LiveHist(d) == {i \in DOMAIN d.hist : ~d.hist[i].deleted}

\* ORDER BY ts."createdAt" ASC instead of DESC
EarliestCandidates(d, t) ==
    {i \in LiveHist(d) :
        /\ d.hist[i].ticketId = t
        /\ \A j \in LiveHist(d) :
              d.hist[j].ticketId = t => d.hist[j].createdAt >= d.hist[i].createdAt}

\* the rows that can come first for ticket t under
\* ORDER BY ts."ticketId", ts."createdAt" DESC
LatestCandidates(d, t) ==
    {i \in LiveHist(d) :
        /\ d.hist[i].ticketId = t
        /\ \A j \in LiveHist(d) :
              d.hist[j].ticketId = t => d.hist[j].createdAt <= d.hist[i].createdAt}

\* the possible results of the latest_status CTE: DISTINCT ON keeps, for
\* each ticket with history, one of the rows that can come first
LatestStatusResults(d) ==
    LET T == {d.hist[i].ticketId : i \in LiveHist(d)}
    IN {f \in [T -> DOMAIN d.hist] : \A t \in T : f[t] \in LatestCandidates(d, t)}

\* the denormalized ticket query, given the result of the CTE
tickets_query(d, latest) ==
    LET live == SelectSeq(d.tickets, LAMBDA t : ~t.deleted)
        StatusOf(t) == d.hist[latest[t]].statusId
    IN [n \in DOMAIN live |->
          LET t == live[n]
              has == t.id \in DOMAIN latest
          IN [id |-> t.id,
              cols |-> << KV("ticket_id", Uuid(t.id)),
                          KV("ticket_number", Leaf("num", <<ToString(t.number)>>)),
                          KV("ticket_data", t.data),
                          KV("status_id", IF has THEN Uuid(StatusOf(t.id)) ELSE None),
                          KV("status_name", IF has THEN NameOf(StatusOf(t.id)) ELSE None),
                          KV("module_id", Ref(t.moduleId)),
                          KV("module_name", RefName(t.moduleId)),
                          KV("datasource_id", Ref(t.dataSourceId)),
                          KV("datasource_name", RefName(t.dataSourceId)),
                          KV("user_id", Ref(t.userId)),
                          KV("user_name", RefName(t.userId)) >>]]

\* the labels query: TicketLabel joined with Label, tl."deletedAt" IS NULL
labels_query(d) ==
    LET live == SelectSeq(d.ticket_labels, LAMBDA r : ~r.deleted)
    IN [n \in DOMAIN live |->
          [ticketId |-> Uuid(live[n].ticketId),
           label_id |-> Uuid(live[n].labelId),
           label_name |-> NameOf(live[n].labelId),
           color |-> LabelColor(live[n].labelId)]]

\* str(x) of an identifier that may be a uuid.UUID
IdStr(v) == IF v.t = "uuid" THEN Leaf("str", v.s) ELSE v

\* process_ticket_labels followed by labels_by_ticket.get(ticket_id, [])
process_ticket_labels(df_labels, ticket_id) ==
    LET mine == SelectSeq(df_labels, LAMBDA r : IdStr(r.ticketId).s = <<ticket_id>>)
    IN List([n \in DOMAIN mine |->
               Dict(<< KV("id", IdStr(mine[n].label_id)),
                       KV("name", mine[n].label_name),
                       KV("color", IF IsNa(mine[n].color) THEN None ELSE mine[n].color) >>)])

----------------------------------------------------------------------------
(* The ticket pass: src/src/ticket_sync.py sync_denormalized_tickets and   *)
(* the older src/ticket_sync.py sync_denormalized_tickets ("legacy")       *)

RECURSIVE legacy_sanitize_document(_, _)
RECURSIVE legacy_sanitize_value(_, _)
RECURSIVE legacy_field_coercion(_, _)

\* the try body of DataLakeSync._sanitize_document of src/ticket_sync.py
\* (and of sanitize_document of src/src/utils.py) for one field value:
\* "v is None or pd.isna(v)" is evaluated on lists too, and the truth value
\* of the array it yields raises for two or more elements (and for none,
\* when empty_raises: the numpy build that made it an error)
legacy_field_coercion(v, empty_raises) ==
    CASE v.t = "list" /\ Len(v.items) >= 2 -> Raised
      [] v.t = "list" /\ Len(v.items) = 0 /\ empty_raises -> Raised
      [] v.t = "list" /\ Len(v.items) = 1 /\ IsNa(v.items[1].v) -> None
      [] IsNa(v) -> None
      [] v.t \in {"npint", "npfloat"} -> Leaf("num", v.s)
      [] v.t = "npbool" -> Leaf("bool", v.s)
      [] v.t = "uuid" -> Leaf("str", v.s)
      [] v.t = "ts" -> Leaf("str", v.s)
      [] v.t = "bytes" -> Leaf("str", decode_ignore(v.s))
      [] v.t = "dict" -> legacy_sanitize_document(v, empty_raises)
      [] v.t = "list" ->
            [v EXCEPT !.items = [i \in DOMAIN v.items |->
                 KV("", legacy_sanitize_document(v.items[i].v, empty_raises))]]
      [] OTHER -> v

\* "except Exception: sanitized[k] = None"
legacy_sanitize_value(v, empty_raises) ==
    IF legacy_field_coercion(v, empty_raises) = Raised THEN None
    ELSE legacy_field_coercion(v, empty_raises)

legacy_sanitize_document(doc, empty_raises) ==
    IF doc.t # "dict" THEN doc
    ELSE [doc EXCEPT !.items = [i \in DOMAIN doc.items |->
             KV(doc.items[i].k, legacy_sanitize_value(doc.items[i].v, empty_raises))]]

\* the column loop of the ticket pass, one value
column_value(v) ==
    CASE v.t = "uuid" -> Leaf("str", v.s)
      [] v.t = "ts" -> Leaf("str", v.s)
      [] IsNa(v) -> None
      [] OTHER -> v

\* the sanitizer the variant of the pass applies
sanitize_for(variant, doc, empty_raises) ==
    IF variant = "legacy" THEN legacy_sanitize_document(doc, empty_raises)
    ELSE sanitize_document(doc)

\* "Handle JSON data field": a str is parsed and the parsed value sanitized;
\* text that is not JSON is kept
parse_json_field(v, c) ==
    IF v.t = "str" /\ json_loads(v) # JSONDecodeError
    THEN sanitize_for(c.variant, json_loads(v), c.empty_raises)
    ELSE v

\* the ticket document before sanitization
build_ticket_doc(row, labels, ts, c) ==
    LET cols == [i \in DOMAIN row.cols |-> KV(row.cols[i].k, column_value(row.cols[i].v))]
        base == [i \in DOMAIN cols |->
                    IF cols[i].k = "ticket_data"
                    THEN KV("ticket_data", parse_json_field(cols[i].v, c))
                    ELSE cols[i]]
                \o << KV("labels", labels) >>
    IN Dict(IF c.variant = "legacy" THEN base
            ELSE base \o << KV("indexed_at", Leaf("str", <<ts>>)),
                            KV("document_id", Leaf("str", document_id(row.id, ts))) >>)

\* the _id of the action: the document_id, or the ticket id in the older pass
action_id(variant, id, ts) ==
    IF variant = "legacy" THEN <<id>> ELSE document_id(id, ts)

RECURSIVE ticket_map_batch(_, _, _, _, _, _)
\* the row loop over rows lo+1..hi of the ticket rows
ticket_map_batch(rows, lo, hi, ts, df_labels, c) ==
    IF hi <= lo THEN [actions |-> <<>>, failed |-> 0]
    ELSE row_step(ticket_map_batch(rows, lo, hi - 1, ts, df_labels, c),
                  sanitize_for(c.variant,
                               build_ticket_doc(rows[hi],
                                   process_ticket_labels(df_labels, rows[hi].id),
                                   ts, c),
                               c.empty_raises),
                  action_id(c.variant, rows[hi].id, ts))

\* get_tickets_and_labels() up to the start of the batch loop
TicketExtract ==
    /\ pc = "Extracting"
    /\ kind = TicketKind
    /\ \E fails \in BOOLEAN : \E latest \in LatestStatusResults(db) :
          LET rows == tickets_query(db, latest)
          IN IF fails \/ rows = <<>>
             THEN /\ log' = log \cup {"error: nothing available to sync"}
                  /\ pc' = "Aborted"
                  /\ UNCHANGED <<df, total_count, batch_size, index_timestamp, clock>>
             ELSE /\ df' = rows
                  /\ total_count' = Len(rows)
                  /\ batch_size' = effective_batch_size(cfg.batch_size)
                  /\ index_timestamp' = ToString(clock)
                  /\ clock' = clock + 1
                  /\ pc' = "MappingBatch"
                  /\ UNCHANGED log
    /\ batch_start' = 0
    /\ successful_docs' = 0
    /\ failed_docs' = 0
    /\ UNCHANGED <<orch, kind, es, bulk_actions, final_count, attempted, sent,
                   last_bulk, cfg, db, run, prev_df, trace, call>>

\* the row loop of one batch of tickets
TicketMapBatch ==
    /\ pc = "MappingBatch"
    /\ kind = TicketKind
    /\ LET m == ticket_map_batch(df, batch_start, batch_end, index_timestamp,
                                 labels_query(db), cfg)
       IN /\ bulk_actions' = m.actions
          /\ failed_docs' = failed_docs + m.failed
    /\ pc' = "Upserting"
    /\ UNCHANGED <<orch, kind, es, clock, df, total_count, batch_size, batch_start,
                   successful_docs, index_timestamp, final_count, log, attempted,
                   sent, last_bulk, cfg, db, run, prev_df, trace, call>>

\* the older pass: helpers.bulk raises NameError (only "bulk" is imported),
\* so every action is indexed on its own with refresh=True; accepted is the
\* set of the actions whose index call answers created or updated
LegacyUpsert ==
    /\ pc = "Upserting"
    /\ cfg.variant = "legacy"
    /\ IF bulk_actions # <<>>
       THEN \E accepted \in SUBSET (1..Len(bulk_actions)) :
              LET docs == es[kind].docs \cup {bulk_actions[i]._id : i \in accepted}
              IN /\ es' = [es EXCEPT ![kind] = [exists |-> TRUE, docs |-> docs,
                                               visible |-> IF accepted = {} THEN @.visible ELSE docs,
                                               gen |-> @.gen]]
                 /\ successful_docs' = successful_docs + Cardinality(accepted)
                 /\ failed_docs' = failed_docs + (Len(bulk_actions) - Cardinality(accepted))
                 /\ last_bulk' = [raised |-> TRUE, accepted |-> {}]
       ELSE UNCHANGED <<es, successful_docs, failed_docs, last_bulk>>
    /\ trace' = trace \o [i \in DOMAIN bulk_actions |-> IndexCall(kind)]
                     \o <<CountCall(kind)>>
    /\ batch_start' = batch_start + batch_size
    /\ pc' = IF batch_start + batch_size < total_count
             THEN "MappingBatch" ELSE "Reconciling"
    /\ UNCHANGED <<orch, kind, clock, df, total_count, batch_size, bulk_actions,
                   index_timestamp, final_count, log, attempted, sent, cfg, db,
                   run, prev_df, call>>

\* the older pass: the final count is read inside a try block
LegacyReconcile ==
    /\ pc = "Reconciling"
    /\ cfg.variant = "legacy"
    /\ \E raised \in BOOLEAN :
          IF raised
          THEN /\ log' = log \cup {"error: error counting documents"}
               /\ UNCHANGED final_count
          ELSE LET c == get_document_count(es, kind, FALSE)
               IN /\ final_count' = c
                  /\ log' = log \cup {reconcile_message(c, total_count)}
    /\ trace' = Append(trace, CountCall(kind))
    /\ pc' = "Done"
    /\ UNCHANGED <<orch, kind, es, clock, df, total_count, batch_size, batch_start,
                   bulk_actions, successful_docs, failed_docs, index_timestamp,
                   attempted, sent, last_bulk, cfg, db, run, prev_df, call>>

\* the full pass is run a second time over the unchanged source
RunAgain ==
    /\ kind \in IndexIds
    /\ pc = "Done"
    /\ run = 1
    /\ run' = 2
    /\ prev_df' = df
    /\ pc' = "Idle"
    /\ ResetLocals
    /\ trace' = <<>>
    /\ UNCHANGED <<orch, kind, es, clock, log, attempted, cfg, db, call>>

\* POST /sync of src/src/routes/ticket_routes.py between two passes: the
\* ticket is read with get_tickets_and_labels(ticket_id) and written by
\* index_ticket_to_es with id=ticket_id and refresh=True
SyncDbTicket ==
    /\ kind = TicketKind
    /\ pc = "Done"
    /\ \E latest \in LatestStatusResults(db) :
         \E n \in DOMAIN tickets_query(db, latest) :
            LET ticket_id == tickets_query(db, latest)[n].id
                docs == es[kind].docs \cup {<<ticket_id>>}
            IN /\ <<ticket_id>> \notin es[kind].docs
               /\ es' = [es EXCEPT ![kind] = [exists |-> TRUE, docs |-> docs,
                                              visible |-> docs, gen |-> @.gen]]
    /\ UNCHANGED <<orch, kind, pc, clock, df, total_count, batch_size, batch_start,
                   bulk_actions, successful_docs, failed_docs, index_timestamp,
                   final_count, log, attempted, sent, last_bulk, cfg, db, run,
                   prev_df, trace, call>>

----------------------------------------------------------------------------
(* The search server: src/server.py, src/src/utils.py ensure_index_exists  *)

\* the client calls of the server, as recorded in trace, with their outcome
ExistsCall(k, outcome) == <<"indices.exists", k, outcome>>
IndicesCreateCall(k, outcome) == <<"indices.create", k, outcome>>
EnsureReturn(k, result) == <<"ensure_index_exists", k, result>>

\* an ensure_index_exists that recreates the index it finds
ensure_index_recreate(store, name, fault) ==
    CASE fault = "exists" ->
            [store |-> store, result |-> FALSE, calls |-> <<ExistsCall(name, "raised")>>]
      [] fault = "create" ->
            [store |-> store, result |-> FALSE,
             calls |-> <<ExistsCall(name, IF store[name].exists THEN "true" ELSE "false"),
                         IndicesCreateCall(name, "raised")>>]
      [] OTHER ->
            [store |-> [store EXCEPT ![name] =
                          [exists |-> TRUE, docs |-> {}, visible |-> {}, gen |-> @.gen + 1]],
             result |-> TRUE,
             calls |-> <<ExistsCall(name, IF store[name].exists THEN "true" ELSE "false"),
                         IndicesCreateCall(name, "ok")>>]

\* ensure_index_exists(es_client, index_name); fault names the client call
\* that raises: "none", "exists" or "create"
ensure_index_exists(store, name, fault) ==
    CASE fault = "exists" ->
            [store |-> store, result |-> FALSE, calls |-> <<ExistsCall(name, "raised")>>]
      [] store[name].exists ->
            [store |-> store, result |-> TRUE, calls |-> <<ExistsCall(name, "true")>>]
      [] fault = "create" ->
            [store |-> store, result |-> FALSE,
             calls |-> <<ExistsCall(name, "false"), IndicesCreateCall(name, "raised")>>]
      [] OTHER ->
            [store |-> [store EXCEPT ![name] =
                          [exists |-> TRUE, docs |-> {}, visible |-> {}, gen |-> @.gen + 1]],
             result |-> TRUE,
             calls |-> <<ExistsCall(name, "false"), IndicesCreateCall(name, "ok")>>]

\* the number of times ensure_index_exists has returned
EnsureCount == Len(SelectSeq(trace, LAMBDA e : e[1] = "ensure_index_exists"))

\* a start of the server (__main__ of server.py), or any other caller of
\* ensure_index_exists
EnsureIndexExists ==
    /\ EnsureCount < MaxEnsure
    /\ \E name \in IndexIds : \E fault \in {"none", "exists", "create"} :
          LET r == ensure_index_exists(es, name, fault)
          IN /\ es' = r.store
             /\ trace' = trace \o r.calls \o <<EnsureReturn(name, r.result)>>
    /\ UNCHANGED <<orch, kind, pc, clock, df, total_count, batch_size, batch_start,
                   bulk_actions, successful_docs, failed_docs, index_timestamp,
                   final_count, log, attempted, sent, last_bulk, cfg, db, run,
                   prev_df, call>>

----------------------------------------------------------------------------
(* The module pass: src/src/data_sync.py sync_modules                      *)

ModuleKind == 3

\* an identifier column as the driver delivers it: NULL, a uuid.UUID object
\* or a str
IdValue(id, as_uuid) ==
    IF id = "" THEN None ELSE IF as_uuid THEN Uuid(id) ELSE Str(id)

\* get_modules(): the Module rows; key is row["id"] as delivered
modules_query(d) ==
    [n \in DOMAIN d.modules |->
        [id |-> d.modules[n].id,
         key |-> IdValue(d.modules[n].id, d.uuid_ids),
         name |-> NameOf(d.modules[n].id),
         parentId |-> IdValue(d.modules[n].parentId, d.uuid_ids)]]

\* get_statuses(), get_labels(), get_data_sources(): the rows of a table
\* that references Module
related_query(d, table) ==
    [n \in DOMAIN table |->
        [id |-> IdValue(table[n].id, d.uuid_ids),
         moduleId |-> IdValue(table[n].moduleId, d.uuid_ids)]]

\* row.to_dict()
to_dict(r) == Dict(<< KV("id", r.id), KV("moduleId", r.moduleId) >>)

\* "if module_id:" / "if parent_id:"
Truthy(v) == v # None

\* module_id after "if isinstance(module_id, uuid.UUID): module_id = str(module_id)"
lookup_key(row) == IdStr(row.key)

\* <x>_by_module.get(key, []): the dictionary is keyed by moduleId as
\* delivered and holds the rows in extraction order
by_module(rows, key) ==
    LET mine == SelectSeq(rows, LAMBDA r : Truthy(r.moduleId) /\ r.moduleId = key)
    IN List([n \in DOMAIN mine |-> to_dict(mine[n])])

\* a parent lookup that settles for the first extracted module
parent_module_first(rows, parent_id) == rows

\* df_modules[df_modules['id'] == parent_id]
parent_module(rows, parent_id) == SelectSeq(rows, LAMBDA r : r.key = parent_id)

\* "Add parent module info if exists"
parent_fields(rows, row) ==
    IF Truthy(row.parentId) /\ parent_module(rows, row.parentId) # <<>>
    THEN << KV("parent_module_id", IdStr(row.parentId)),
            KV("parent_module_name", parent_module(rows, row.parentId)[1].name) >>
    ELSE <<>>

\* the module document before sanitization
build_module_doc(d, rows, row, ts) ==
    Dict(<< KV("module_id", Str(row.id)),
            KV("module_name", row.name),
            KV("statuses", by_module(related_query(d, d.statuses), lookup_key(row))),
            KV("labels", by_module(related_query(d, d.labels), lookup_key(row))),
            KV("data_sources", by_module(related_query(d, d.data_sources), lookup_key(row))) >>
         \o parent_fields(rows, row)
         \o << KV("indexed_at", Leaf("str", <<ts>>)),
               KV("document_id", Leaf("str", document_id(row.id, ts))) >>)

RECURSIVE module_map_batch(_, _, _, _, _)
\* the row loop over rows lo+1..hi of the module rows
module_map_batch(d, rows, lo, hi, ts) ==
    IF hi <= lo THEN [actions |-> <<>>, failed |-> 0]
    ELSE row_step(module_map_batch(d, rows, lo, hi - 1, ts),
                  sanitize_document(build_module_doc(d, rows, rows[hi], ts)),
                  document_id(rows[hi].id, ts))

\* df_modules = get_modules() up to the start of the batch loop
ModuleExtract ==
    /\ pc = "Extracting"
    /\ kind = ModuleKind
    /\ IF modules_query(db) = <<>>
       THEN /\ log' = log \cup {"error: nothing available to sync"}
            /\ pc' = "Aborted"
            /\ UNCHANGED <<df, total_count, batch_size, index_timestamp, clock>>
       ELSE /\ df' = modules_query(db)
            /\ total_count' = Len(modules_query(db))
            /\ batch_size' = effective_batch_size(cfg.batch_size)
            /\ index_timestamp' = ToString(clock)
            /\ clock' = clock + 1
            /\ pc' = "MappingBatch"
            /\ UNCHANGED log
    /\ batch_start' = 0
    /\ successful_docs' = 0
    /\ failed_docs' = 0
    /\ UNCHANGED <<orch, kind, es, bulk_actions, final_count, attempted, sent,
                   last_bulk, cfg, db, run, prev_df, trace, call>>

\* the row loop of one batch of modules
ModuleMapBatch ==
    /\ pc = "MappingBatch"
    /\ kind = ModuleKind
    /\ LET m == module_map_batch(db, df, batch_start, batch_end, index_timestamp)
       IN /\ bulk_actions' = m.actions
          /\ failed_docs' = failed_docs + m.failed
    /\ pc' = "Upserting"
    /\ UNCHANGED <<orch, kind, es, clock, df, total_count, batch_size, batch_start,
                   successful_docs, index_timestamp, final_count, log, attempted,
                   sent, last_bulk, cfg, db, run, prev_df, trace, call>>

----------------------------------------------------------------------------
(* A sanitizer called on its own: src/src/document_utils.py                *)
(* sanitize_document, src/src/utils.py sanitize_document                   *)

\* y = sanitize_document(x)
SanitizeOnce ==
    /\ call.step = "start"
    /\ call' = [call EXCEPT !.step = "once",
                            !.once = sanitize_for(call.variant, call.arg, call.empty_raises)]
    /\ UNCHANGED <<orch, kind, pc, es, clock, df, total_count, batch_size, batch_start,
                   bulk_actions, successful_docs, failed_docs, index_timestamp,
                   final_count, log, attempted, sent, last_bulk, cfg, db, run,
                   prev_df, trace>>

\* z = sanitize_document(y)
SanitizeTwice ==
    /\ call.step = "once"
    /\ call' = [call EXCEPT !.step = "twice",
                            !.twice = sanitize_for(call.variant, call.once, call.empty_raises)]
    /\ UNCHANGED <<orch, kind, pc, es, clock, df, total_count, batch_size, batch_start,
                   bulk_actions, successful_docs, failed_docs, index_timestamp,
                   final_count, log, attempted, sent, last_bulk, cfg, db, run,
                   prev_df, trace>>

----------------------------------------------------------------------------
(* Specifications *)

\* a source without ticket tables, for the passes that do not read them
\* no sanitizer is called on its own
NoCall == [step |-> "none", variant |-> "", empty_raises |-> FALSE,
           arg |-> None, once |-> None, twice |-> None]

NoDb == [tickets |-> <<>>, hist |-> <<>>, ticket_labels |-> <<>>, soft |-> {}]

ConfigBatchSizes == {1, 2, DefaultBatchSize}

InitLocals ==
    /\ df = <<>>
    /\ total_count = 0
    /\ batch_size = 0
    /\ batch_start = 0
    /\ bulk_actions = <<>>
    /\ successful_docs = 0
    /\ failed_docs = 0
    /\ index_timestamp = ""
    /\ final_count = -1
    /\ sent = 0
    /\ last_bulk = NoAnswer
    /\ log = {}
    /\ attempted = {}
    /\ clock = 1

\* a single pass called on its own, for any kind, over an index that is
\* absent or left by an earlier pass
\* the kinds a single pass is started on: data sources and modules
SinglePassKinds == {1, 3}

InitPass ==
    /\ orch = "direct"
    /\ kind \in SinglePassKinds
    /\ pc = "Idle"
    /\ \E old \in BOOLEAN :
          es = [i \in IndexIds |-> IF old /\ i = kind THEN OldIndex ELSE AbsentIndex]
    /\ \E b \in ConfigBatchSizes : cfg = [batch_size |-> b, max_rows |-> [k \in 1..Len(Kinds) |-> MaxRows], values |-> FieldValues,
                 variant |-> "package", empty_raises |-> FALSE]
    /\ InitLocals
    /\ db = NoDb
    /\ run = 1
    /\ prev_df = <<>>
    /\ trace = <<>>
    /\ call = NoCall

NextPass == CreateIndex \/ Extract \/ MapBatch \/ Upsert \/ Reconcile \/ EsRefresh

SpecPass == InitPass /\ [][NextPass]_vars

\* the column values of the fair pass: one that maps and one that does not
LoopValues == { Leaf("str", <<"x">>), Dict(<<KV(NonStrKey, Leaf("str", <<"x">>))>>) }

\* a single pass whose statements run one after the other until it returns
InitLoop ==
    /\ orch = "direct"
    /\ kind \in SinglePassKinds
    /\ pc = "Idle"
    /\ es = [i \in IndexIds |-> AbsentIndex]
    /\ \E b \in ConfigBatchSizes :
          cfg = [batch_size |-> b, max_rows |-> [k \in 1..Len(Kinds) |-> MaxRows],
                 values |-> LoopValues, variant |-> "package", empty_raises |-> FALSE]
    /\ InitLocals
    /\ db = NoDb
    /\ run = 1
    /\ prev_df = <<>>
    /\ trace = <<>>
    /\ call = NoCall

\* the statements of the pass itself
PassStep == CreateIndex \/ Extract \/ MapBatch \/ Upsert \/ Reconcile

\* the pass is synchronous: the statement it has reached is executed
FairPass == InitLoop /\ [][NextPass]_vars /\ WF_vars(PassStep)

\* column values that are text: the JSON encoding of an object, of an
\* array, and text that is not JSON
JsonValues ==
    { JsonText(Dict(<<KV("a", Leaf("num", <<"1">>))>>)),
      JsonText(List(<<Leaf("num", <<"1">>)>>)),
      Leaf("str", <<"not json">>) }

\* a pass over data sources (dataMap) or users (preferences) whose column
\* holds text
InitJson ==
    /\ orch = "direct"
    /\ kind \in {1, 2}
    /\ pc = "Idle"
    /\ es = [i \in IndexIds |-> AbsentIndex]
    /\ \E b \in {1, DefaultBatchSize} :
          cfg = [batch_size |-> b, max_rows |-> [k \in 1..Len(Kinds) |-> MaxRowsAll],
                 values |-> JsonValues, variant |-> "package", empty_raises |-> FALSE]
    /\ InitLocals
    /\ db = NoDb
    /\ run = 1
    /\ prev_df = <<>>
    /\ trace = <<>>
    /\ call = NoCall

SpecJson == InitJson /\ [][NextPass]_vars

\* a table that references Module: rows R1, R2, ... of any module or none
RelatedTables ==
    UNION { { [i \in 1..n |-> [id |-> "R" \o ToString(i), moduleId |-> f[i]]] :
              f \in [1..n -> {"M1", "M2", ""}] } : n \in 0..MaxLabels }

\* the Module table: M1, and M2 whose parent is none, M1, or a module that
\* is not extracted
ModuleTables ==
    { <<>>, << [id |-> "M1", parentId |-> ""] >> } \cup
    { << [id |-> "M1", parentId |-> ""], [id |-> "M2", parentId |-> p] >> :
      p \in {"", "M1", "M9"} } \cup
    { << [id |-> "M2", parentId |-> "M1"], [id |-> "M1", parentId |-> ""] >> }

\* the sources of the module pass; identifiers arrive as str or as uuid.UUID
ModuleDbs ==
    { [modules |-> m, statuses |-> st,
       labels |-> << [id |-> "L1", moduleId |-> "M2"], [id |-> "L2", moduleId |-> "M1"] >>,
       data_sources |-> << [id |-> "D1", moduleId |-> "M1"], [id |-> "D2", moduleId |-> "M1"] >>,
       uuid_ids |-> u] :
      m \in ModuleTables, st \in RelatedTables, u \in BOOLEAN }

\* sync_modules() called on its own
InitModules ==
    /\ orch = "direct"
    /\ kind = ModuleKind
    /\ pc = "Idle"
    /\ es = [i \in IndexIds |-> AbsentIndex]
    /\ \E b \in {1, DefaultBatchSize} :
          cfg = [batch_size |-> b, max_rows |-> [k \in 1..Len(Kinds) |-> 0],
                 values |-> {}, variant |-> "package", empty_raises |-> FALSE]
    /\ db \in ModuleDbs
    /\ InitLocals
    /\ run = 1
    /\ prev_df = <<>>
    /\ trace = <<>>
    /\ call = NoCall

NextModules ==
    CreateIndex \/ ModuleExtract \/ ModuleMapBatch \/ Upsert \/ Reconcile \/ EsRefresh

SpecModules == InitModules /\ [][NextModules]_vars

\* sync_all_tables over small tables: one table of up to MaxRowsAll rows,
\* the others of at most one row
InitAll ==
    /\ orch = "idle"
    /\ kind = 0
    /\ pc = "Idle"
    /\ \E old \in BOOLEAN :
          es = [i \in IndexIds |-> IF old THEN OldIndex ELSE AbsentIndex]
    /\ \E wide \in 1..Len(Kinds) :
          cfg = [batch_size |-> 1,
                 max_rows |-> [k \in 1..Len(Kinds) |-> IF k = wide THEN MaxRowsAll ELSE 1],
                 values |-> PlainValues, variant |-> "package", empty_raises |-> FALSE]
    /\ InitLocals
    /\ db = NoDb
    /\ run = 1
    /\ prev_df = <<>>
    /\ trace = <<>>
    /\ call = NoCall

NextAll == StartAll \/ NextKind \/ CatchAll \/ NextPass

SpecAll == InitAll /\ [][NextAll]_vars

\* one pass of one kind run twice in succession
InitRerun ==
    /\ orch = "direct"
    /\ kind \in SinglePassKinds
    /\ pc = "Idle"
    /\ \E old \in BOOLEAN :
          es = [i \in IndexIds |-> IF old /\ i = kind THEN OldIndex ELSE AbsentIndex]
    /\ \E b \in {1, DefaultBatchSize} :
          cfg = [batch_size |-> b, max_rows |-> [k \in 1..Len(Kinds) |-> MaxRowsAll],
                 values |-> PlainValues, variant |-> "package", empty_raises |-> FALSE]
    /\ InitLocals
    /\ db = NoDb
    /\ run = 1
    /\ prev_df = <<>>
    /\ trace = <<>>
    /\ call = NoCall

NextRerun == NextPass \/ RunAgain

SpecRerun == InitRerun /\ [][NextRerun]_vars

\* the Ticket table: A with all references and JSON text as data, B with
\* none and text that is not JSON, in "number" order
TicketTable(deleted) ==
    << [id |-> "A", number |-> 1, deleted |-> "A" \in deleted,
        moduleId |-> "M1", dataSourceId |-> "D1", userId |-> "U1",
        data |-> JsonText(Dict(<<KV("n", Leaf("num", <<"1">>)),
                                 KV("tags", List(<<Leaf("str", <<"x">>)>>))>>))],
       [id |-> "B", number |-> 2, deleted |-> "B" \in deleted,
        moduleId |-> "", dataSourceId |-> "", userId |-> "",
        data |-> Leaf("str", <<"not json">>)] >>

\* history row i references its own status S<i>
HistOf(rows) ==
    [i \in DOMAIN rows |->
        [ticketId |-> rows[i].ticketId, statusId |-> "S" \o ToString(i),
         createdAt |-> rows[i].createdAt, deleted |-> rows[i].deleted]]

HistRow(t, c, del) == [ticketId |-> t, createdAt |-> c, deleted |-> del]
LabelRow(t, l, del) == [ticketId |-> t, labelId |-> l, deleted |-> del]

\* sources that vary the status history of ticket A
StatusDbs ==
    { [tickets |-> TicketTable({}), hist |-> HistOf(h),
       ticket_labels |-> <<>>, soft |-> {}] :
      h \in UNION { [1..n -> [ticketId : {"A"}, createdAt : 1..MaxTime, deleted : BOOLEAN]] :
                    n \in 0..MaxHist } }

\* sources that vary the label join rows
LabelDbs ==
    { [tickets |-> TicketTable({}),
       hist |-> HistOf(<<HistRow("A", 1, FALSE), HistRow("B", 1, FALSE)>>),
       ticket_labels |-> tl, soft |-> {}] :
      tl \in UNION { [1..n -> [ticketId : {"A", "B"}, labelId : {"L1", "L2"}, deleted : BOOLEAN]] :
                     n \in 0..MaxLabels } }

\* sources that vary the soft-deleted rows (soft: Status, Label, Module,
\* DataSource and User rows with deletedAt set)
DeletedDbs ==
    { [tickets |-> TicketTable(dt),
       hist |-> HistOf(<<HistRow("A", 1, FALSE), HistRow("B", 2, FALSE)>>),
       ticket_labels |-> <<LabelRow("A", "L1", FALSE)>>, soft |-> sd] :
      dt \in {{}, {"A"}, {"B"}, {"A", "B"}},
      sd \in {{}, {"S1"}, {"L1"}, {"M1"}, {"D1"}, {"U1"}} }

TicketDbs == StatusDbs \cup LabelDbs \cup DeletedDbs

\* the ticket pass, in either version, run twice over one source
InitTickets ==
    /\ orch = "direct"
    /\ kind = TicketKind
    /\ pc = "Idle"
    /\ es = [i \in IndexIds |-> AbsentIndex]
    /\ \E b \in {1, DefaultBatchSize} : \E v \in {"package", "legacy"} : \E e \in BOOLEAN :
          /\ v = "package" => ~e
          /\ cfg = [batch_size |-> b, max_rows |-> [k \in 1..Len(Kinds) |-> 0], values |-> {},
                    variant |-> v, empty_raises |-> e]
    /\ db \in TicketDbs
    /\ run = 1
    /\ prev_df = <<>>
    /\ trace = <<>>
    /\ call = NoCall
    /\ InitLocals

NextTickets ==
    \/ CreateIndex \/ TicketExtract \/ TicketMapBatch \/ Upsert \/ LegacyUpsert
    \/ Reconcile \/ LegacyReconcile \/ EsRefresh \/ RunAgain \/ SyncDbTicket

SpecTickets == InitTickets /\ [][NextTickets]_vars

\* the server next to indexes that exist or not, after a ticket pass
InitServer ==
    /\ orch = "direct"
    /\ kind = TicketKind
    /\ pc = "Done"
    /\ \E first \in {AbsentIndex, OldIndex} : \E tickets \in {AbsentIndex, OldIndex} :
          es = [i \in IndexIds |-> IF i = 1 THEN first
                                   ELSE IF i = TicketKind THEN tickets ELSE AbsentIndex]
    /\ cfg = [batch_size |-> DefaultBatchSize, max_rows |-> [k \in 1..Len(Kinds) |-> 0],
              values |-> {}, variant |-> "package", empty_raises |-> FALSE]
    /\ db = [tickets |-> TicketTable({}),
             hist |-> HistOf(<<HistRow("A", 1, FALSE), HistRow("B", 2, FALSE)>>),
             ticket_labels |-> <<LabelRow("A", "L1", FALSE)>>, soft |-> {}]
    /\ InitLocals
    /\ run = 1
    /\ prev_df = <<>>
    /\ trace = <<>>
    /\ call = NoCall

NextServer == EnsureIndexExists \/ SyncDbTicket

SpecServer == InitServer /\ [][NextServer]_vars

\* values without arrays a sanitizer can be handed
TreeValues ==
    { None,                                           \* None
      Leaf("nan", <<"nan">>),                         \* float('nan')
      Leaf("nat", <<"NaT">>),                         \* pd.NaT
      Leaf("npnan", <<"nan">>),                       \* np.float64('nan')
      Leaf("npint", <<"7">>),                         \* np.int64(7)
      Leaf("npfloat", <<"1.5">>),                     \* np.float64(1.5)
      Leaf("npbool", <<"True">>),                     \* np.bool_(True)
      Leaf("uuid", <<"u">>),                          \* uuid.UUID
      Leaf("ts", <<"t">>),                            \* pd.Timestamp
      Leaf("bytes", <<"b">>),                         \* bytes
      Leaf("bytes", <<"a", InvalidByte, "c">>),       \* bytes that are not UTF-8
      Leaf("str", <<"x">>),                           \* str
      Dict(<<KV("id", Leaf("uuid", <<"u">>))>>),      \* nested object
      List(<<>>),                                     \* empty list
      List(<<Leaf("uuid", <<"u">>)>>),                \* list of one identifier
      List(<<Dict(<<KV("at", Leaf("ts", <<"t">>))>>), \* list of an object and a number
             Leaf("npint", <<"7">>)>>)
    }

\* arrays a sanitizer can be handed
ArrayValues ==
    { Array(<<Leaf("npint", <<"7">>)>>),                              \* one element
      Array(<<Leaf("uuid", <<"u">>)>>),                               \* one object element
      Array(<<Leaf("npint", <<"7">>), Leaf("npnan", <<"nan">>)>>),    \* two elements
      Array(<<Array(<<Leaf("npint", <<"7">>), Leaf("npint", <<"8">>)>>),
              Array(<<Leaf("npint", <<"9">>), Leaf("npint", <<"0">>)>>)>>)  \* 2 x 2
    }

FieldName(i) == "f" \o ToString(i)

\* the documents of at most MaxFields fields over the values, and the values
\* themselves (a sanitizer is also handed what is not a dict)
SanitizerInputs(values) ==
    values \cup
    UNION { { Dict([i \in 1..n |-> KV(FieldName(i), f[i])]) : f \in [1..n -> values] } :
            n \in 0..MaxFields }

\* sanitize_document of document_utils.py over trees and arrays, the older
\* sanitize_document over trees
InitSanitize ==
    /\ orch = "direct"
    /\ kind = 0
    /\ pc = "Idle"
    /\ es = [i \in IndexIds |-> AbsentIndex]
    /\ cfg = [batch_size |-> DefaultBatchSize, max_rows |-> [k \in 1..Len(Kinds) |-> 0],
              values |-> {}, variant |-> "package", empty_raises |-> FALSE]
    /\ InitLocals
    /\ db = NoDb
    /\ run = 1
    /\ prev_df = <<>>
    /\ trace = <<>>
    /\ \E v \in {"package", "legacy"} : \E e \in BOOLEAN :
          /\ v = "package" => ~e
          /\ \E x \in SanitizerInputs(IF v = "package" THEN TreeValues \cup ArrayValues
                                      ELSE TreeValues) :
                call = [step |-> "start", variant |-> v, empty_raises |-> e,
                        arg |-> x, once |-> None, twice |-> None]

NextSanitize == SanitizeOnce \/ SanitizeTwice

SpecSanitize == InitSanitize /\ [][NextSanitize]_vars

----------------------------------------------------------------------------
(* The per-entity write paths: src/src/routes/*.py                         *)

MaxRequests == 2      \* requests handled by the write paths
MaxItems == 2         \* items of a batch request

\* the default of get_index_name's index_type parameter
DefaultIndexType == "denormalized_tickets"

\* the index type of an entity kind, as the full pass of the kind spells it
IndexType(k) == IF k = TicketKind THEN DefaultIndexType ELSE Kinds[k]

\* get_index_name(index_type): f"{index_prefix}{index_type}" with the
\* configured index_prefix; a name is the sequence of the strings that are
\* concatenated
get_index_name(index_type) == <<"data_lake_", index_type>>

\* index_name of the full pass of kind k: f"{index_prefix}data_sources", ...
sync_index_name(k) == <<"data_lake_", IndexType(k)>>

\* the index the add, batch add and sync-by-id paths of kind k write to:
\* f"{get_index_name()}data_sources", f"{get_index_name()}users", and
\* get_index_name() for modules, statuses, labels and tickets
route_index_name(k) ==
    IF k \in {1, 2} THEN get_index_name(DefaultIndexType) \o <<Kinds[k]>>
    ELSE get_index_name(DefaultIndexType)

\* es_client.index(index=name, id=doc_id, body=document, refresh=True): the
\* index is created when it is missing; a document is kept as the kind of
\* the entity it describes, the entity's id and the timestamp of its id
\* (none here)
client_index(store, name, k, doc_id) ==
    LET docs == store[name].docs \cup {<<IndexType(k), doc_id, "">>}
    IN [store EXCEPT ![name] = [exists |-> TRUE, docs |-> docs, visible |-> docs,
                                 gen |-> IF @.exists THEN @.gen ELSE @.gen + 1]]

\* the client calls and the responses of the write paths, as recorded in trace
ClientIndexCall(name, k, doc_id, outcome) == <<"es_client.index", name, IndexType(k), doc_id, outcome>>
\* a response without counters carries the body of a batch that counted nothing
Response(route, k, status, body) ==
    <<"response", route, IndexType(k), status,
      IF body = <<>> THEN [successful |-> 0, failed |-> 0, results |-> <<>>] ELSE body>>

\* the outcomes of one item: "ok", "missing" (prepare_entity_data finds a
\* required field missing; only the ticket paths validate) and "raises"
\* (es_client.index raises)
ItemOutcomes(k) == IF k = TicketKind THEN {"ok", "missing", "raises"} ELSE {"ok", "raises"}

\* the item sent as the i-th of a request
ItemId(i) == ToString(i)

\* the loop "for <entity>_data in batch_data:" of add_<entities>_batch over
\* the first n items
RECURSIVE add_batch(_, _, _, _)
add_batch(k, store, items, n) ==
    IF n = 0
    THEN [store |-> store, successful |-> 0, failed |-> 0, results |-> <<>>, calls |-> <<>>]
    ELSE LET before == add_batch(k, store, items, n - 1)
             name == route_index_name(k)
         IN CASE items[n] = "missing" ->
                    [before EXCEPT !.failed = @ + 1,
                                   !.results = Append(@, [id |-> ItemId(n), status |-> "error"])]
              [] items[n] = "raises" ->
                    [before EXCEPT !.failed = @ + 1,
                                   !.results = Append(@, [id |-> ItemId(n), status |-> "error"]),
                                   !.calls = Append(@, ClientIndexCall(name, k, ItemId(n), "raised"))]
              [] OTHER ->
                    [before EXCEPT !.store = client_index(before.store, name, k, ItemId(n)),
                                   !.successful = @ + 1,
                                   !.results = Append(@, [id |-> ItemId(n), status |-> "success"]),
                                   !.calls = Append(@, ClientIndexCall(name, k, ItemId(n), "ok"))]

\* POST /<entities>: add_<entity>
AddEntity ==
    /\ Len(SelectSeq(trace, LAMBDA e : e[1] = "response")) < MaxRequests
    /\ \E k \in IndexIds : \E outcome \in ItemOutcomes(k) :
          LET name == route_index_name(k)
          IN CASE outcome = "missing" ->
                     /\ es' = es
                     /\ trace' = Append(trace, Response("add", k, 400, <<>>))
               [] outcome = "raises" ->
                     /\ es' = es
                     /\ trace' = trace \o <<ClientIndexCall(name, k, ItemId(1), "raised"),
                                            Response("add", k, 500, <<>>)>>
               [] OTHER ->
                     /\ es' = client_index(es, name, k, ItemId(1))
                     /\ trace' = trace \o <<ClientIndexCall(name, k, ItemId(1), "ok"),
                                            Response("add", k, 201, <<>>)>>
    /\ UNCHANGED <<orch, kind, pc, clock, df, total_count, batch_size, batch_start,
                   bulk_actions, successful_docs, failed_docs, index_timestamp,
                   final_count, log, attempted, sent, last_bulk, cfg, db, run,
                   prev_df, call>>

\* POST /<entities>/batch: add_<entities>_batch on a non-empty list; the
\* refresh after the loop raises when the client fails or the index is missing
AddBatch ==
    /\ Len(SelectSeq(trace, LAMBDA e : e[1] = "response")) < MaxRequests
    /\ \E k \in IndexIds : \E n \in 1..MaxItems : \E items \in [1..n -> ItemOutcomes(k)] :
       \E refresh_fault \in BOOLEAN :
          LET r == add_batch(k, es, items, n)
              name == route_index_name(k)
              body == [successful |-> r.successful, failed |-> r.failed, results |-> r.results]
          IN /\ es' = r.store
             /\ trace' = trace \o <<<<"request", "batch", IndexType(k), items>>>> \o r.calls \o
                   (IF refresh_fault \/ ~r.store[name].exists
                    THEN <<<<"indices.refresh", name, "raised">>, Response("batch", k, 500, <<>>)>>
                    ELSE <<<<"indices.refresh", name, "ok">>,
                           Response("batch", k, IF r.failed = 0 THEN 200 ELSE 207, body)>>)
    /\ UNCHANGED <<orch, kind, pc, clock, df, total_count, batch_size, batch_start,
                   bulk_actions, successful_docs, failed_docs, index_timestamp,
                   final_count, log, attempted, sent, last_bulk, cfg, db, run,
                   prev_df, call>>

\* POST /<entities>/sync: sync_db_<entity>. The data source and user paths
\* call get_data_sources(id) and get_users(id), which take no argument, and
\* answer 500; the module, status and label paths index nothing; the ticket
\* path indexes the ticket it read
SyncById ==
    /\ Len(SelectSeq(trace, LAMBDA e : e[1] = "response")) < MaxRequests
    /\ \E k \in IndexIds : \E raised \in BOOLEAN :
          LET name == route_index_name(k)
          IN CASE k \in {1, 2} ->
                     /\ es' = es
                     /\ trace' = Append(trace, Response("sync", k, 500, <<>>))
               [] k \in {3, 4, 5} ->
                     /\ es' = es
                     /\ trace' = Append(trace, Response("sync", k, 200, <<>>))
               [] raised ->
                     /\ es' = es
                     /\ trace' = trace \o <<ClientIndexCall(name, k, ItemId(1), "raised"),
                                            Response("sync", k, 500, <<>>)>>
               [] OTHER ->
                     /\ es' = client_index(es, name, k, ItemId(1))
                     /\ trace' = trace \o <<ClientIndexCall(name, k, ItemId(1), "ok"),
                                            Response("sync", k, 200, <<>>)>>
    /\ UNCHANGED <<orch, kind, pc, clock, df, total_count, batch_size, batch_start,
                   bulk_actions, successful_docs, failed_docs, index_timestamp,
                   final_count, log, attempted, sent, last_bulk, cfg, db, run,
                   prev_df, call>>

\* a full pass of kind k between two requests: the index of the pass is
\* recreated and filled with the documents of one row per item
FullPass ==
    /\ Len(SelectSeq(trace, LAMBDA e : e[1] = "response")) < MaxRequests
    /\ \E k \in IndexIds : \E n \in 1..MaxItems :
          LET name == sync_index_name(k)
              created == create_index(es, name, "none").store
              docs == {<<IndexType(k), ItemId(i), ToString(clock)>> : i \in 1..n}
          IN /\ es' = [created EXCEPT ![name].docs = docs, ![name].visible = docs]
             /\ trace' = Append(trace, Response("pass", k, 0, <<>>))
    /\ clock' = clock + 1
    /\ UNCHANGED <<orch, kind, pc, df, total_count, batch_size, batch_start,
                   bulk_actions, successful_docs, failed_docs, index_timestamp,
                   final_count, log, attempted, sent, last_bulk, cfg, db, run,
                   prev_df, call>>

\* the write paths next to the full passes, over indexes that do not exist yet
InitRoutes ==
    /\ orch = "direct"
    /\ kind = TicketKind
    /\ pc = "Done"
    /\ es = [name \in {sync_index_name(k) : k \in IndexIds} \cup {route_index_name(k) : k \in IndexIds}
               |-> AbsentIndex]
    /\ cfg = [batch_size |-> DefaultBatchSize, max_rows |-> [k \in 1..Len(Kinds) |-> 0],
              values |-> {}, variant |-> "package", empty_raises |-> FALSE]
    /\ db = NoDb
    /\ InitLocals
    /\ run = 1
    /\ prev_df = <<>>
    /\ trace = <<>>
    /\ call = NoCall

NextRoutes == AddEntity \/ AddBatch \/ SyncById \/ FullPass

SpecRoutes == InitRoutes /\ [][NextRoutes]_vars

----------------------------------------------------------------------------
(* The index connector called on its own: src/src/es_connector.py          *)

MaxCalls == 2         \* calls of the connector after a pass

\* the result of search when the client raised:
\* {"hits": {"total": {"value": 0}, "hits": []}}
EmptyHits == [total |-> 0, hits |-> {}]

\* an index_document that lets the exception of the client through
index_document_propagate(store, name, doc_id, refresh, raised) ==
    IF raised THEN [store |-> store, result |-> Raised]
    ELSE LET docs == store[name].docs \cup {doc_id}
         IN [store |-> [store EXCEPT ![name] =
                          [exists |-> TRUE, docs |-> docs,
                           visible |-> IF refresh THEN docs ELSE @.visible,
                           gen |-> IF @.exists THEN @.gen ELSE @.gen + 1]],
             result |-> Leaf("str", IF doc_id \in store[name].docs THEN <<"updated">> ELSE <<"created">>)]

\* ElasticsearchConnector.index_document; raised: es_client.index raised
index_document(store, name, doc_id, refresh, raised) ==
    IF raised THEN [store |-> store, result |-> None]
    ELSE LET docs == store[name].docs \cup {doc_id}
         IN [store |-> [store EXCEPT ![name] =
                          [exists |-> TRUE, docs |-> docs,
                           visible |-> IF refresh THEN docs ELSE @.visible,
                           gen |-> IF @.exists THEN @.gen ELSE @.gen + 1]],
             result |-> Leaf("str", IF doc_id \in store[name].docs THEN <<"updated">> ELSE <<"created">>)]

\* ElasticsearchConnector.search over the pattern f"{index_prefix}*": the
\* searchable documents of every index; raised: es_client.search raised
search(store, raised) ==
    IF raised THEN EmptyHits
    ELSE LET hits == UNION {store[name].visible : name \in DOMAIN store}
         IN [total |-> Cardinality(hits), hits |-> hits]

\* a call of get_document_count outside the batch loop
GetDocumentCount ==
    /\ pc \in {"Done", "Aborted", "Failed"}
    /\ Len(SelectSeq(trace, LAMBDA e : e[1] = "returned")) < MaxCalls
    /\ \E raised \in BOOLEAN :
          trace' = Append(trace, <<"returned", "get_document_count", raised,
                                   get_document_count(es, kind, raised)>>)
    /\ UNCHANGED <<orch, kind, pc, es, clock, df, total_count, batch_size, batch_start,
                   bulk_actions, successful_docs, failed_docs, index_timestamp,
                   final_count, log, attempted, sent, last_bulk, cfg, db, run,
                   prev_df, call>>

\* a call of index_document
IndexDocument ==
    /\ pc \in {"Done", "Aborted", "Failed"}
    /\ Len(SelectSeq(trace, LAMBDA e : e[1] = "returned")) < MaxCalls
    /\ \E raised \in BOOLEAN : \E refresh \in BOOLEAN :
          LET r == index_document(es, kind, document_id("n", "0"), refresh, raised)
          IN /\ es' = r.store
             /\ trace' = Append(trace, <<"returned", "index_document", raised, r.result>>)
    /\ UNCHANGED <<orch, kind, pc, clock, df, total_count, batch_size, batch_start,
                   bulk_actions, successful_docs, failed_docs, index_timestamp,
                   final_count, log, attempted, sent, last_bulk, cfg, db, run,
                   prev_df, call>>

\* a call of search (the /search routes of src/src/search_api.py)
Search ==
    /\ pc \in {"Done", "Aborted", "Failed"}
    /\ Len(SelectSeq(trace, LAMBDA e : e[1] = "returned")) < MaxCalls
    /\ \E raised \in BOOLEAN :
          trace' = Append(trace, <<"returned", "search", raised, search(es, raised)>>)
    /\ UNCHANGED <<orch, kind, pc, es, clock, df, total_count, batch_size, batch_start,
                   bulk_actions, successful_docs, failed_docs, index_timestamp,
                   final_count, log, attempted, sent, last_bulk, cfg, db, run,
                   prev_df, call>>

\* a pass, then calls of the connector
NextConnector == NextPass \/ GetDocumentCount \/ IndexDocument \/ Search

SpecConnector == InitLoop /\ [][NextConnector]_vars

----------------------------------------------------------------------------
(* The generic table sync: src/data_lake_sync.py sync_table_to_elasticsearch *)

\* the sequences of n distinct rows of the table
RECURSIVE PagesOf(_, _)
PagesOf(rows, n) ==
    IF n = 0 THEN {<<>>}
    ELSE UNION {{Append(p, r) : r \in rows \ {p[i] : i \in DOMAIN p}} : p \in PagesOf(rows, n - 1)}

\* the pages "SELECT * FROM <table> LIMIT limit OFFSET offset" can return
\* over the rows of an unchanged table: the query has no ORDER BY, so the
\* rows come in an order that the database chooses for each query
read_sql(rows, limit, offset) ==
    LET left == IF offset < Cardinality(rows) THEN Cardinality(rows) - offset ELSE 0
    IN PagesOf(rows, Min(limit, left))

\* the index is created when it is missing and the rows are counted
TableStart ==
    /\ pc = "Idle"
    /\ \E fault \in {"none", "exists", "create"} :
          LET r == ensure_index_exists(es, kind, fault)
          IN IF fault # "none" /\ ~r.result
             THEN /\ pc' = "Failed"
                  /\ UNCHANGED <<es, total_count>>
             ELSE /\ es' = r.store
                  /\ total_count' = Cardinality(db.table)
                  /\ pc' = "Paging"
    /\ batch_start' = 0
    /\ UNCHANGED <<orch, kind, clock, df, batch_size, bulk_actions, successful_docs,
                   failed_docs, index_timestamp, final_count, log, attempted, sent,
                   last_bulk, cfg, db, run, prev_df, trace, call>>

\* df = pd.read_sql(query, self.db_engine); if df.empty: break
TablePage ==
    /\ pc = "Paging"
    /\ \E page \in read_sql(db.table, cfg.batch_size, batch_start) :
          /\ df' = page
          /\ pc' = IF page = <<>> THEN "Done" ELSE "Dispatching"
    /\ UNCHANGED <<orch, kind, es, clock, total_count, batch_size, batch_start,
                   bulk_actions, successful_docs, failed_docs, index_timestamp,
                   final_count, log, attempted, sent, last_bulk, cfg, db, run,
                   prev_df, trace, call>>

\* the actions of the page, the bulk request and "offset += len(df)"; the
\* actions carry no _id, so the index gives every accepted one a new id; an
\* exception of bulk leaves the function
TableBulk ==
    /\ pc = "Dispatching"
    /\ \E raised \in BOOLEAN : \E accepted \in SUBSET (1..Len(df)) :
          /\ raised => accepted = {}
          /\ LET docs == es[kind].docs \cup
                           {<<df[i], "_", ToString(batch_start + i)>> : i \in accepted}
             IN es' = [es EXCEPT ![kind].docs = docs]
          /\ last_bulk' = [raised |-> raised, accepted |-> accepted]
          /\ pc' = IF raised THEN "Failed" ELSE "Paging"
          /\ batch_start' = IF raised THEN batch_start ELSE batch_start + Len(df)
    /\ trace' = Append(trace, <<"bulk", kind, df>>)
    /\ sent' = sent + 1
    /\ UNCHANGED <<orch, kind, clock, df, total_count, batch_size, bulk_actions,
                   successful_docs, failed_docs, index_timestamp, final_count, log,
                   attempted, cfg, db, run, prev_df, call>>

\* a table of up to MaxRows rows that no one changes, and a batch size
InitTable ==
    /\ orch = "direct"
    /\ kind = 1
    /\ pc = "Idle"
    /\ \E old \in BOOLEAN :
          es = [i \in IndexIds |-> IF old /\ i = kind THEN OldIndex ELSE AbsentIndex]
    /\ \E b \in ConfigBatchSizes :
          cfg = [batch_size |-> b, max_rows |-> [k \in 1..Len(Kinds) |-> 0],
                 values |-> {}, variant |-> "table", empty_raises |-> FALSE]
    /\ \E n \in 0..MaxRows :
          db = [table |-> {"r" \o ToString(i) : i \in 1..n}]
    /\ InitLocals
    /\ run = 1
    /\ prev_df = <<>>
    /\ trace = <<>>
    /\ call = NoCall

NextTable == TableStart \/ TablePage \/ TableBulk

\* the function is synchronous: the statement it has reached is executed
FairTable == InitTable /\ [][NextTable]_vars /\ WF_vars(NextTable)

----------------------------------------------------------------------------
(* Properties of the orchestrator and of a pass *)

InPass == pc \in {"MappingBatch", "Upserting", "Reconciling"}

\* C1: when the pass of one kind raises, the failure is caught and logged
\* and the passes of all remaining kinds are still attempted: once
\* sync_all_tables has finished, every kind has been attempted.
C1_AllKindsAttempted ==
    orch = "done" => attempted = 1..Len(Kinds)

\* C2: after create_index returns the index exists and holds no document,
\* whether or not it existed before; when it raises, the pass has extracted
\* nothing, sent nothing, and no step of the pass can follow.
C2_CreateIndexCleanSlate ==
    /\ pc = "Extracting" =>
          /\ es[kind].exists
          /\ es[kind].docs = {}
          /\ es[kind].visible = {}
    /\ pc = "Failed" =>
          /\ df = <<>>
          /\ sent = 0
          /\ ~ENABLED Extract
          /\ ~ENABLED MapBatch
          /\ ~ENABLED Upsert

\* the index existed before the call and has been recreated empty
C2_Witness ==
    /\ pc = "Extracting"
    /\ es[kind].gen = 2
    /\ es[kind].docs = {}

\* a dictionary with a non-string key occurs in v
RECURSIVE HasNonStrKey(_)
HasNonStrKey(v) ==
    \E i \in DOMAIN v.items :
        \/ v.items[i].k = NonStrKey
        \/ HasNonStrKey(v.items[i].v)

BatchRows == (batch_start + 1)..batch_end
BadRows == {i \in BatchRows : HasNonStrKey(df[i].val)}
ActionIds(actions) == {actions[j]._id : j \in DOMAIN actions}

\* C3: of the n rows of a batch, the k rows that cannot be serialized even
\* by the fallback are left out and counted as failed; the bulk request
\* carries exactly the other n-k documents, and when the index accepts them
\* all successful_docs grows by n-k.
C3_PartialBatch ==
    [][ /\ MapBatch =>
            /\ Len(bulk_actions') = Cardinality(BatchRows) - Cardinality(BadRows)
            /\ ActionIds(bulk_actions') =
                  {<<df[i].id, "_", index_timestamp>> : i \in BatchRows \ BadRows}
            /\ failed_docs' = failed_docs + Cardinality(BadRows)
        /\ ( /\ Upsert
             /\ bulk_actions # <<>>
             /\ ~last_bulk'.raised
             /\ last_bulk'.accepted = DOMAIN bulk_actions ) =>
            /\ successful_docs' = successful_docs + Len(bulk_actions)
            /\ failed_docs' = failed_docs
      ]_vars

\* a single batch of three rows, one of them unserializable: 2 successes, 1 failure
C3_Witness ==
    /\ pc = "Reconciling"
    /\ total_count = 3
    /\ batch_size >= 3
    /\ Cardinality({i \in DOMAIN df : HasNonStrKey(df[i].val)}) = 1
    /\ successful_docs = 2
    /\ failed_docs = 1

\* C4: a bulk request that returns with rejected items does not abort the
\* pass: both counters grow by the numbers of accepted and rejected items,
\* the loop goes on to the next batch, and successful_docs is at any time
\* the number of documents the index has accepted in this pass.
C4_PartialRejection ==
    /\ [](InPass => successful_docs = Cardinality(es[kind].docs))
    /\ [][ ( Upsert /\ bulk_actions # <<>> /\ ~last_bulk'.raised ) =>
            /\ successful_docs' = successful_docs + Cardinality(last_bulk'.accepted)
            /\ failed_docs' = failed_docs
                  + (Len(bulk_actions) - Cardinality(last_bulk'.accepted))
            /\ pc' = IF batch_end < total_count THEN "MappingBatch" ELSE "Reconciling"
         ]_vars

\* the first of two batches was rejected, the second was still dispatched
C4_Witness ==
    /\ pc = "Reconciling"
    /\ total_count = 2
    /\ batch_size = 1
    /\ sent = 2
    /\ es[kind].docs = {<<"2", "_", index_timestamp>>}
    /\ successful_docs = 1
    /\ failed_docs = 1

WarnMsg == "warning: only some documents were indexed"
ZeroMsg == "error: no documents were indexed"

NumBatches == (total_count + batch_size - 1) \div batch_size

\* C5 as stated: after the last batch a warning is logged whenever the index
\* count differs from the number of source rows.
C5_WarningWheneverDifferent ==
    (pc = "Done" /\ final_count >= 0 /\ final_count # total_count)
        => WarnMsg \in log

\* C5 amended: the warning is logged exactly when the count is non-zero and
\* below the number of rows, the error exactly when the count is zero; the
\* pass then ends normally and has sent no batch twice.
C5_Reconciliation ==
    (pc = "Done" /\ final_count >= 0) =>
        /\ WarnMsg \in log <=> (0 < final_count /\ final_count < total_count)
        /\ ZeroMsg \in log <=> final_count = 0
        /\ sent <= NumBatches

\* three rows, two of them counted in the index: a warning, and the pass is done
C5_Witness ==
    /\ pc = "Done"
    /\ total_count = 3
    /\ final_count = 2
    /\ WarnMsg \in log

\* C10: the _source of every action handed to the bulk upsert is a tree of
\* strings, numbers, booleans, null, objects and arrays only.
C10_SourceJsonSafe ==
    \A i \in DOMAIN bulk_actions : JsonSafe(bulk_actions[i]._source)

----------------------------------------------------------------------------
(* The ticket pass *)

\* the value of field k of a document, or a "missing" marker
FieldOf(doc, k) ==
    LET I == {i \in DOMAIN doc.items : doc.items[i].k = k}
    IN IF I = {} THEN Leaf("missing", <<>>) ELSE doc.items[CHOOSE i \in I : TRUE].v

\* a batch of ticket actions is about to be handed to the index
TicketBatchReady == kind = TicketKind /\ pc = "Upserting"

\* the ticket an action is about
TicketOf(a) == a._id[1]

\* the {id, name, color} list read off the live TicketLabel rows of ticket t
ExpectedLabels(d, t) ==
    LET mine == SelectSeq(d.ticket_labels, LAMBDA r : ~r.deleted /\ r.ticketId = t)
    IN List([n \in DOMAIN mine |->
               Dict(<< KV("id", Str(mine[n].labelId)),
                       KV("name", NameOf(mine[n].labelId)),
                       KV("color", LabelColor(mine[n].labelId)) >>)])

\* C6: the labels field of every ticket document handed to the index is the
\* ordered {id, name, color} list of the ticket's label join rows, the
\* empty list when it has none; never null, never missing.
C6_LabelsExact ==
    TicketBatchReady =>
        \A i \in DOMAIN bulk_actions :
            FieldOf(bulk_actions[i]._source, "labels")
                = ExpectedLabels(db, TicketOf(bulk_actions[i]))

\* the live history rows of ticket t
HistOfTicket(d, t) == {i \in DOMAIN d.hist : d.hist[i].ticketId = t /\ ~d.hist[i].deleted}

\* the live history rows of ticket t with the greatest createdAt
NewestHist(d, t) ==
    {i \in HistOfTicket(d, t) :
        \A j \in HistOfTicket(d, t) : d.hist[j].createdAt <= d.hist[i].createdAt}

C8_SameRowBothRuns ==
    (kind = TicketKind /\ run = 2 /\ prev_df # <<>> /\ df # <<>>) => df = prev_df

\* the ids a document takes from Status, Module, DataSource, User and Label
ReferencedIds(src) ==
    LET labels == FieldOf(src, "labels")
    IN {FieldOf(src, f) : f \in {"status_id", "module_id", "datasource_id", "user_id"}}
       \cup {FieldOf(labels.items[j].v, "id") : j \in DOMAIN labels.items}

\* C9: no soft-deleted row contributes a document or a field value: there
\* is no document for a soft-deleted ticket, and no document takes a value
\* from a soft-deleted Status, Label, Module, DataSource or User row.
C9_NoSoftDeleted ==
    TicketBatchReady =>
        \A i \in DOMAIN bulk_actions :
            /\ \A n \in DOMAIN db.tickets :
                  db.tickets[n].deleted => TicketOf(bulk_actions[i]) # db.tickets[n].id
            /\ ReferencedIds(bulk_actions[i]._source) \cap {Str(x) : x \in db.soft} = {}

\* the document key is the bare ticket id
StableKey(id) == Len(id) = 1

\* C13: every write path of the ticket kind uses one identity strategy: the
\* ticket index never holds a stable-key document and a timestamp-suffixed
\* document of the same ticket.
C13_OneIdentityStrategy ==
    \A a, b \in es[TicketKind].docs :
        (StableKey(a) /\ ~StableKey(b)) => a[1] # b[1]

\* the natural id of the row a generic action was built from
NaturalId(a) == FieldOf(a._source, IdField[kind])

\* C14: in a historical-append pass every document carries the indexed_at
\* taken once before the first batch, its document_id is its natural id,
\* '_' and that indexed_at, the _id of its action is that document_id, and
\* rows with different natural ids get different _ids.
C14_HistoricalIdentity ==
    /\ [](pc = "Upserting" =>
            \A i \in DOMAIN bulk_actions :
               LET a == bulk_actions[i]
               IN /\ FieldOf(a._source, "indexed_at") = Leaf("str", <<index_timestamp>>)
                  /\ FieldOf(a._source, "document_id")
                        = Leaf("str", <<NaturalId(a).s[1], "_", index_timestamp>>)
                  /\ a._id = FieldOf(a._source, "document_id").s
                  /\ \A j \in DOMAIN bulk_actions :
                        NaturalId(bulk_actions[j]) # NaturalId(a)
                            => bulk_actions[j]._id # a._id)
    /\ [][(pc \in {"MappingBatch", "Upserting"}
           /\ pc' \in {"MappingBatch", "Upserting", "Reconciling"})
            => index_timestamp' = index_timestamp]_vars

\* the second batch of a pass whose first batch of two documents is indexed
C14_Witness ==
    /\ pc = "Upserting"
    /\ batch_start = 2
    /\ Len(bulk_actions) = 1
    /\ Cardinality(es[kind].docs) = 2
    /\ \A id \in es[kind].docs : id[3] = index_timestamp

\* the documents of the index of the pass built from row n of df
DocsOfRow(n) == {id \in es[kind].docs : id[1] = df[n].id}

\* C15: a pass run a second time over the unchanged source, with every
\* upsert accepted, leaves exactly one document per source row, as a single
\* run does.
C15_RerunSafe ==
    (pc = "Done" /\ total_count > 0 /\ successful_docs = total_count
       /\ (run = 2 => df = prev_df))
        => /\ Cardinality(es[kind].docs) = total_count
           /\ \A n \in DOMAIN df : Cardinality(DocsOfRow(n)) = 1

\* the second run over two rows that the first run had indexed
C15_Witness ==
    /\ run = 2
    /\ pc = "Done"
    /\ total_count = 2
    /\ df = prev_df
    /\ successful_docs = 2
    /\ Cardinality(es[kind].docs) = 2
    /\ final_count = 2

\* the positions of trace holding a bulk request
BulkCalls == {i \in DOMAIN trace : trace[i][1] = "bulk_index"}

\* the positions of trace holding a bulk request that asks for a refresh
RefreshCalls == {i \in BulkCalls : trace[i][3]}

\* the events a step appends to trace
Appended == SubSeq(trace', Len(trace) + 1, Len(trace'))

\* C16: within a pass only the bulk request of the final batch
\* (batch_end = total_count) asks for a refresh, so at most one does.
C16_RefreshOnlyFinal ==
    /\ [](/\ Cardinality(RefreshCalls) <= 1
          /\ \A i \in RefreshCalls : \A j \in BulkCalls : j <= i)
    /\ [][(Len(trace') > Len(trace) /\ batch_end # total_count)
            => \A i \in DOMAIN Appended :
                  Appended[i][1] = "bulk_index" => ~Appended[i][3]]_vars

\* a finished pass of two bulk requests, the second asking for the refresh
C16_Witness ==
    /\ pc = "Done"
    /\ Cardinality(BulkCalls) = 2
    /\ Cardinality(RefreshCalls) = 1
    /\ total_count = 2

\* row n of df yields an action
MapsSuccessfully(n) ==
    serialize_check(sanitize_document(build_doc(kind, df[n], index_timestamp))).ok

\* the positions of trace holding a call of the given operation
CallsOf(op) == {i \in DOMAIN trace : trace[i][1] = op}

\* C17: a pass over at least one row that maps successfully calls
\* create_index exactly once and before the first bulk_index, calls
\* bulk_index at least once, and calls get_document_count after the last
\* bulk_index.
C17_CallOrder ==
    (pc = "Done" /\ \E n \in DOMAIN df : MapsSuccessfully(n)) =>
        /\ Cardinality(CallsOf("create_index")) = 1
        /\ CallsOf("bulk_index") # {}
        /\ \A c \in CallsOf("create_index") : \A b \in CallsOf("bulk_index") : c < b
        /\ \E g \in CallsOf("get_document_count") : \A b \in CallsOf("bulk_index") : b < g

\* a finished pass over three rows of which only the last maps
C17_Witness ==
    /\ pc = "Done"
    /\ total_count = 3
    /\ ~MapsSuccessfully(1) /\ ~MapsSuccessfully(2) /\ MapsSuccessfully(3)
    /\ Cardinality(CallsOf("bulk_index")) = 1

\* the kinds whose index create_index was called for, in call order
CreatedKinds ==
    LET cs == SelectSeq(trace, LAMBDA e : e[1] = "create_index")
    IN [i \in DOMAIN cs |-> cs[i][2]]

\* sync_all_tables returned and no pass raised
AllReturnedCleanly == orch = "done" /\ "error: error during data sync" \notin log

\* create_index was called exactly five times, once per kind's index, in
\* the order data sources, users, modules, statuses, labels
FiveKindsInOrder == AllReturnedCleanly => CreatedKinds = <<1, 2, 3, 4, 5>>

\* C18 as stated: when no pass raises, sync_all_tables runs the five kinds
\* in the fixed order, each exactly once, and the pass of a kind starts only
\* after the reconciliation of the previous kind has finished.
C18_AfterReconciliation ==
    /\ []FiveKindsInOrder
    /\ [][(orch = "running" /\ kind' # kind) => pc = "Done"]_vars

\* C18: when no pass raises, sync_all_tables runs the five kinds in the
\* fixed order, each exactly once, and the pass of a kind starts only after
\* the pass of the previous kind has returned: after its reconciliation, or
\* after its early return when the extraction yielded no rows.
C18_Sequential ==
    /\ []FiveKindsInOrder
    /\ [][(orch = "running" /\ kind' # kind) =>
            /\ kind' = kind + 1
            /\ \/ pc = "Done"
               \/ pc = "Aborted" /\ total_count = 0 /\ CallsOf("bulk_index") \cap
                     {i \in DOMAIN trace : trace[i][2] = kind} = {}]_vars

\* all five passes returned, one of them early and one after a bulk request
C18_Witness ==
    /\ AllReturnedCleanly
    /\ CreatedKinds = <<1, 2, 3, 4, 5>>
    /\ CallsOf("bulk_index") # {}
    /\ \E i \in DOMAIN trace : i < Len(trace) /\ trace[i][1] = "create_index"
                                /\ trace[i + 1][1] = "create_index"

\* ceil(n / d) for d > 0
Ceil(n, d) == (n + d - 1) \div d

\* the successors the state order allows
AllowedNext(state) ==
    CASE state = "Idle" -> {"Extracting", "Failed"}
      [] state = "Extracting" -> {"MappingBatch", "Aborted"}
      [] state = "MappingBatch" -> {"Upserting"}
      [] state = "Upserting" -> {"MappingBatch", "Reconciling"}
      [] state = "Reconciling" -> {"Done"}
      [] OTHER -> {}

\* the pass has returned or raised
Terminated == pc \in {"Done", "Failed", "Aborted"}

\* C19: every pass follows the state order Idle, Extracting, MappingBatch,
\* Upserting, Reconciling, Done and terminates; the batch loop runs exactly
\* ceil(total_count / batch_size) iterations, each one batch_size rows after
\* the previous one; Reconciling is entered only after the last batch has
\* been dispatched, Done only from Reconciling, and a pass that failed or
\* returned early takes no further step.
C19_StateOrder ==
    /\ [][pc' # pc => pc' \in AllowedNext(pc)]_vars
    /\ [][pc = "MappingBatch" =>
             /\ batch_start < total_count
             /\ batch_start % batch_size = 0
             /\ pc' = "Upserting" => batch_start' = batch_start]_vars
    /\ []((pc \in {"Reconciling", "Done"}) =>
             batch_start \div batch_size = Ceil(total_count, batch_size))
    /\ [][pc' = "Reconciling" /\ pc # "Reconciling" =>
             pc = "Upserting" /\ batch_end = total_count]_vars
    /\ [][pc' = "Done" /\ pc # "Done" => pc = "Reconciling"]_vars
    /\ [][(pc \in {"Failed", "Aborted"}) => UNCHANGED vars]_vars
    /\ <>Terminated

\* a pass of two iterations over three rows has reached Done
C19_Witness ==
    /\ pc = "Done"
    /\ total_count = 3
    /\ batch_size = 2
    /\ batch_start \div batch_size = 2

\* a pass that raised before its extraction
C19_FailedWitness == pc = "Failed" /\ trace = <<CreateCall(kind)>>

\* the step is a bulk request of the batch loop that failed as a whole
BulkFailedWhole == pc = "Upserting" /\ sent' = sent + 1 /\ last_bulk'.raised

\* C20: when the bulk upsert of a batch fails as a whole, every document of
\* the batch is counted exactly once, as a success or as a failure, before
\* the pass moves on to the next batch.
C20_FallbackCountsEachDocument ==
    [][BulkFailedWhole =>
         (successful_docs' - successful_docs) + (failed_docs' - failed_docs)
             = Len(bulk_actions)]_vars

----------------------------------------------------------------------------
(* The sanitizer on its own *)

RECURSIVE HasRaised(_)
\* an exception left a try body somewhere in the tree
HasRaised(v) == v = Raised \/ \E i \in DOMAIN v.items : HasRaised(v.items[i].v)

\* the try body raises for field i of document x
FieldRaises(x, i) ==
    IF call.variant = "legacy"
    THEN legacy_field_coercion(x.items[i].v, call.empty_raises) = Raised
    ELSE field_coercion(x.items[i].v) = Raised

\* the value field i of document x gets when it is the only field
FieldAlone(x, i) ==
    sanitize_for(call.variant, Dict(<<x.items[i]>>), call.empty_raises).items[1].v

\* C11: sanitize_document never raises; a field whose coercion raises is
\* set to null, and every other field of the same object has the value it
\* gets when sanitized without its siblings.
C11_FieldIsolation ==
    call.step \in {"once", "twice"} =>
        LET x == call.arg
            y == call.once
        IN /\ ~HasRaised(y)
           /\ x.t # "dict" => y = x
           /\ x.t = "dict" =>
                /\ y.t = "dict"
                /\ Len(y.items) = Len(x.items)
                /\ \A i \in DOMAIN x.items :
                      /\ y.items[i].k = x.items[i].k
                      /\ y.items[i].v = IF FieldRaises(x, i) THEN None
                                        ELSE FieldAlone(x, i)

\* a two-dimensional array next to an identifier
C11_Witness ==
    /\ call.step = "once"
    /\ call.variant = "package"
    /\ call.arg.t = "dict"
    /\ Len(call.arg.items) = 2
    /\ field_coercion(call.arg.items[1].v) = Raised
    /\ call.arg.items[2].v = Leaf("uuid", <<"u">>)
    /\ call.once.items[1].v = None
    /\ call.once.items[2].v = Leaf("str", <<"u">>)

RECURSIVE NoArrays(_)
\* a tree of scalars, objects and lists
NoArrays(v) == v.t # "ndarray" /\ \A i \in DOMAIN v.items : NoArrays(v.items[i].v)

\* C12: sanitize_document(sanitize_document(x)) = sanitize_document(x) for
\* every tree x of missing markers, boxed numerics, identifiers,
\* timestamps, binary values, objects and lists.
C12_Idempotent ==
    (call.step = "twice" /\ call.variant = "package" /\ NoArrays(call.arg))
        => call.twice = call.once

\* a document with a nested list, changed by the first application
C12_Witness ==
    /\ call.step = "twice"
    /\ call.variant = "package"
    /\ call.arg.t = "dict"
    /\ \E i \in DOMAIN call.arg.items :
          /\ call.arg.items[i].v.t = "list"
          /\ call.once.items[i].v # call.arg.items[i].v
    /\ call.twice = call.once

----------------------------------------------------------------------------
(* Mapping of the rows of a pass *)

\* the action of the batch about row n of df, when the row has one
ActionsOfRow(n) ==
    {i \in DOMAIN bulk_actions :
        bulk_actions[i]._id = document_id(df[n].id, index_timestamp)}

\* the text v encodes a JSON object or array
EncodesJson(v) == v.t = "str" /\ json_loads(v) # JSONDecodeError
                            /\ json_loads(v).t \in {"dict", "list"}

\* C21: in every document handed to the index, a field whose source value is
\* text encoding a JSON object or array is the nested sanitized object, not
\* the text; text that is not JSON is kept as it is and the document is
\* still part of the batch.
C21_JsonTextParsed ==
    (pc = "Upserting" /\ kind \in 1..Len(Kinds)) =>
        \A n \in (batch_start + 1)..batch_end :
            /\ ActionsOfRow(n) # {}
            /\ \A i \in ActionsOfRow(n) :
                  FieldOf(bulk_actions[i]._source, ValueField[kind]) =
                     IF EncodesJson(df[n].val)
                     THEN sanitize_document(json_loads(df[n].val))
                     ELSE df[n].val

\* a batch of module actions is about to be handed to the index
ModuleBatchReady == kind = ModuleKind /\ pc = "Upserting" /\ "modules" \in DOMAIN db

\* the sanitized rows of a table that reference module m, in extraction order
RelatedRowsOf(table, m) ==
    LET mine == SelectSeq(table, LAMBDA r : r.moduleId = m)
    IN List([n \in DOMAIN mine |->
               Dict(<< KV("id", Str(mine[n].id)),
                       KV("moduleId", Str(mine[n].moduleId)) >>)])

\* C22: the statuses, labels and data_sources lists of every module document
\* are exactly the extracted Status, Label and DataSource rows whose moduleId
\* is the module's id, in extraction order, the empty list when there is
\* none, whether identifiers arrive as strings or as UUID objects.
C22_RelatedRowsExact ==
    ModuleBatchReady =>
        \A n \in (batch_start + 1)..batch_end : \A i \in ActionsOfRow(n) :
            LET src == bulk_actions[i]._source
            IN /\ FieldOf(src, "statuses") = RelatedRowsOf(db.statuses, df[n].id)
               /\ FieldOf(src, "labels") = RelatedRowsOf(db.labels, df[n].id)
               /\ FieldOf(src, "data_sources") = RelatedRowsOf(db.data_sources, df[n].id)

Missing == Leaf("missing", <<>>)

\* C27: a module document whose row has a parent id that is the id of an
\* extracted module carries that id as parent_module_id and that module's
\* name as parent_module_name; a row without a parent id, or whose parent is
\* not extracted, is still indexed and its document has neither field.
C27_ParentResolution ==
    ModuleBatchReady =>
        \A n \in (batch_start + 1)..batch_end :
            /\ ActionsOfRow(n) # {}
            /\ \A i \in ActionsOfRow(n) :
                  LET src == bulk_actions[i]._source
                      p == db.modules[n].parentId
                  IN IF p # "" /\ \E m \in DOMAIN db.modules : db.modules[m].id = p
                     THEN /\ FieldOf(src, "parent_module_id") = Str(p)
                          /\ FieldOf(src, "parent_module_name") = NameOf(p)
                     ELSE /\ FieldOf(src, "parent_module_id") = Missing
                          /\ FieldOf(src, "parent_module_name") = Missing

\* a batch holding a module whose parent is extracted after it, and ids
\* delivered as UUID objects
C27_Witness ==
    /\ ModuleBatchReady
    /\ db.uuid_ids
    /\ Len(bulk_actions) = 2
    /\ FieldOf(bulk_actions[1]._source, "parent_module_name") = NameOf("M1")
    /\ FieldOf(bulk_actions[2]._source, "parent_module_id") = Missing

\* a batch holding a module whose parent is not among the extracted modules
C27_OrphanWitness ==
    /\ ModuleBatchReady
    /\ \E n \in (batch_start + 1)..batch_end :
          db.modules[n].parentId = "M9" /\ ActionsOfRow(n) # {}

\* the rows the actions of the batch are about
RowsOfActions == {n \in DOMAIN df : ActionsOfRow(n) # {}}

\* C23: the effective batch size is min(configured batch_size, 50) and at
\* least 1; the batches are the consecutive slices [k*b, min((k+1)*b,
\* total_count)) in source order: the first starts at row 0, each next one
\* where the previous one ended, the last one ends at total_count; a bulk
\* request carries at most one action per row of its slice, so at most 50.
C23_BatchSlices ==
    /\ [](InPass =>
            /\ batch_size = Min(cfg.batch_size, 50)
            /\ batch_size >= 1)
    /\ []((pc \in {"MappingBatch", "Upserting"}) =>
            /\ batch_start % batch_size = 0
            /\ batch_start < total_count
            /\ batch_end - batch_start <= 50)
    /\ []((pc = "Upserting") =>
            /\ RowsOfActions \subseteq BatchRows
            /\ \A n \in BatchRows : Cardinality(ActionsOfRow(n)) <= 1
            /\ Len(bulk_actions) = Cardinality(RowsOfActions)
            /\ Len(bulk_actions) <= 50)
    /\ [][(pc = "Extracting" /\ pc' = "MappingBatch") => batch_start' = 0]_vars
    /\ [][(pc = "Upserting" /\ pc' = "MappingBatch") =>
             /\ batch_end = batch_start + batch_size
             /\ batch_start' = batch_end]_vars
    /\ [][(pc = "Upserting" /\ pc' = "Reconciling") => batch_end = total_count]_vars

\* the configured 1000 has been capped to 50 and one batch holds all rows
C23_Witness ==
    /\ pc = "Upserting"
    /\ cfg.batch_size = DefaultBatchSize
    /\ batch_size = BatchSizeCap
    /\ total_count = 3
    /\ Len(bulk_actions) = 3

\* the second of two batches: rows 3..3 after rows 1..2
C23_SecondBatchWitness ==
    /\ pc = "Upserting"
    /\ batch_size = 2
    /\ batch_start = 2
    /\ BatchRows = {3}
    /\ Len(bulk_actions) = 1

\* the sanitized document of row n of a generic pass
SanitizedRow(n) == sanitize_document(build_doc(kind, df[n], index_timestamp))

\* the rows of the batch whose document fails the strict serialization and
\* passes the default-to-string one
FallbackRows == {n \in BatchRows : /\ ~StrictSerializable(SanitizedRow(n))
                                   /\ FallbackSerializable(SanitizedRow(n))}

\* the rows of the batch whose document fails both serializations
TwiceFailedRows == {n \in BatchRows : /\ ~StrictSerializable(SanitizedRow(n))
                                      /\ ~FallbackSerializable(SanitizedRow(n))}

\* C24: a row is counted as failed only when the strict serialization and
\* the default-to-string fallback have both failed; when the fallback
\* succeeds the string-coerced document is part of the same batch and
\* failed_docs does not grow for it; every other row of the batch is
\* processed either way.
C24_FallbackOnce ==
    /\ [][(pc = "MappingBatch" /\ pc' = "Upserting") =>
             /\ failed_docs' = failed_docs + Cardinality(TwiceFailedRows)
             /\ Len(bulk_actions') = Cardinality(BatchRows \ TwiceFailedRows)]_vars
    /\ []((pc = "Upserting") =>
             \A n \in BatchRows :
                 /\ n \in TwiceFailedRows => ActionsOfRow(n) = {}
                 /\ n \in FallbackRows =>
                       /\ ActionsOfRow(n) # {}
                       /\ \A i \in ActionsOfRow(n) :
                             bulk_actions[i]._source = FallbackResult(SanitizedRow(n))
                 /\ n \notin (FallbackRows \cup TwiceFailedRows) =>
                       /\ ActionsOfRow(n) # {}
                       /\ \A i \in ActionsOfRow(n) :
                             bulk_actions[i]._source = SanitizedRow(n))

\* a batch of three rows: the first fails twice, the second is rescued by the
\* fallback as a string, the third serializes strictly
C24_Witness ==
    /\ pc = "Upserting"
    /\ BatchRows = {1, 2, 3}
    /\ TwiceFailedRows = {1}
    /\ FallbackRows = {2}
    /\ failed_docs = 1
    /\ Len(bulk_actions) = 2
    /\ FieldOf(bulk_actions[1]._source, ValueField[kind]) = Leaf("str", <<"1.5">>)

----------------------------------------------------------------------------
(* The sanitizer on lists and binary values *)

\* the value a field holding e gets from sanitize_document
AsField(e) == sanitize_document(Dict(<<KV("f", e)>>)).items[1].v

\* C25: sanitize_document coerces every element of a list-valued field as it
\* coerces a field holding that value, nested lists included.
C25_ElementsAsFields ==
    (call.step \in {"once", "twice"} /\ call.variant = "package"
                                     /\ call.arg.t = "dict") =>
        \A i \in DOMAIN call.arg.items :
            LET v == call.arg.items[i].v
                w == call.once.items[i].v
            IN v.t = "list" =>
                 /\ w.t = "list"
                 /\ Len(w.items) = Len(v.items)
                 /\ \A j \in DOMAIN v.items : w.items[j].v = AsField(v.items[j].v)

\* the text with U+FFFD in the place of every byte that cannot be decoded
decode_replace(bs) == [i \in DOMAIN bs |-> IF bs[i] = InvalidByte THEN "U+FFFD" ELSE bs[i]]

\* C26: for a binary field value sanitize_document returns a string in which
\* every undecodable byte is replaced by a replacement character, not
\* dropped, and the decodable bytes keep their order; it never fails.
C26_BytesReplaced ==
    (call.step \in {"once", "twice"} /\ call.arg.t = "dict") =>
        \A i \in DOMAIN call.arg.items :
            LET v == call.arg.items[i].v
            IN v.t = "bytes" =>
                 call.once.items[i].v = Leaf("str", decode_replace(v.s))

----------------------------------------------------------------------------
(* The server *)

\* the step is a call of ensure_index_exists for index k that returned r
EnsureStep(k, r) ==
    /\ Len(trace') > Len(trace)
    /\ Appended[Len(Appended)] = EnsureReturn(k, r)

\* the events of operation op among those the step appended
AppendedOf(op) == SelectSeq(Appended, LAMBDA e : e[1] = op)

\* a client call of the step raised
ClientRaised ==
    \E i \in DOMAIN Appended : /\ Appended[i][1] \in {"indices.exists", "indices.create"}
                                /\ Appended[i][3] = "raised"

\* C28: ensure_index_exists leaves an index that exists as it is, calling
\* neither create nor delete, and returns True; it creates a missing index
\* once and returns True; when a client call raises it returns False
\* instead of raising. No other index is touched.
C28_EnsureKeepsIndex ==
    [][\A k \in IndexIds : \A r \in BOOLEAN :
         EnsureStep(k, r) =>
            /\ \A j \in IndexIds \ {k} : es'[j] = es[j]
            /\ es[k].exists =>
                  /\ es'[k] = es[k]
                  /\ AppendedOf("indices.create") = <<>>
                  /\ AppendedOf("indices.delete") = <<>>
            /\ (es[k].exists /\ ~ClientRaised) => r
            /\ (~es[k].exists /\ ~ClientRaised) =>
                  /\ r
                  /\ AppendedOf("indices.create") = <<IndicesCreateCall(k, "ok")>>
                  /\ es'[k].exists
                  /\ es'[k].docs = {}
            /\ ClientRaised => ~r]_vars

\* ensure_index_exists has returned True for the ticket index, which held a
\* document before and holds it still
C28_Witness ==
    /\ trace # <<>>
    /\ trace[Len(trace)] = EnsureReturn(TicketKind, TRUE)
    /\ trace[Len(trace) - 1] = ExistsCall(TicketKind, "true")
    /\ es[TicketKind].docs # {}

\* ensure_index_exists has created a missing index
C28_CreatedWitness ==
    /\ Len(trace) >= 3
    /\ trace[Len(trace)] = EnsureReturn(TicketKind, TRUE)
    /\ trace[Len(trace) - 1] = IndicesCreateCall(TicketKind, "ok")

----------------------------------------------------------------------------
(* What a pass leaves in its index *)

\* the ids of the actions the index accepted in the bulk request of the step
AcceptedIds == {bulk_actions[i]._id : i \in last_bulk'.accepted}

\* C29: a pass is not atomic: once its index has been created no step of the
\* pass removes a document from it, so wherever the pass fails or stops the
\* documents accepted in its earlier batches are still in the index; a
\* bulk request that fails as a whole leaves them too.
C29_UpsertsStay ==
    /\ [][(pc # "Idle") => es[kind].docs \subseteq es'[kind].docs]_vars
    /\ [][(pc = "Upserting" /\ sent' = sent + 1) =>
             es'[kind].docs = es[kind].docs \cup AcceptedIds]_vars
    /\ [](InPass => \A id \in es[kind].docs : id[3] = index_timestamp)

\* the bulk request of the second batch failed as a whole and the pass went
\* on: the document of the first batch is still in the index
C29_Witness ==
    /\ pc \in {"MappingBatch", "Reconciling"}
    /\ batch_size = 1
    /\ sent = 2
    /\ last_bulk.raised
    /\ es[kind].docs = {document_id(df[1].id, index_timestamp)}

\* C30: when a pass returns after its reconciliation, every document of its
\* index was written by it (none of an earlier pass survives); when it
\* returns because the extraction failed or yielded no row, the index has
\* been recreated and is empty, no batch was dispatched and no count was
\* taken.
C30_OnlyOwnDocuments ==
    /\ (pc = "Done" /\ kind \in 1..Len(Kinds)) =>
          \A id \in es[kind].docs :
              /\ id[3] = index_timestamp
              /\ \E n \in DOMAIN df : id = document_id(df[n].id, index_timestamp)
    /\ (pc = "Aborted") =>
          /\ es[kind].exists
          /\ es[kind].docs = {}
          /\ es[kind].visible = {}
          /\ trace = <<CreateCall(kind)>>

\* the second run found nothing to extract: the documents of the first run
\* are gone
C30_Witness ==
    /\ run = 2
    /\ pc = "Aborted"
    /\ prev_df # <<>>
    /\ es[kind].gen >= 2
    /\ es[kind].docs = {}

\* the second run has finished over an index the first run had filled
C30_SecondRunWitness ==
    /\ run = 2
    /\ pc = "Done"
    /\ Len(prev_df) = 2
    /\ total_count = 1
    /\ Cardinality(es[kind].docs) = 1

----------------------------------------------------------------------------
(* The counters of a pass *)

\* the rows the batch loop has gone through: batch_end of the latest iteration
RowsProcessed == Min(batch_start, total_count)

\* C31: at the end of every batch iteration successful_docs + failed_docs
\* equals the number of source rows processed so far, also when the bulk
\* request of the batch raised inside bulk_index.
C31_EveryRowCounted ==
    (pc \in {"MappingBatch", "Reconciling"}) =>
        successful_docs + failed_docs = RowsProcessed

----------------------------------------------------------------------------
(* The messages of the reconciliation *)

ErrorMsg == "error: no documents were indexed"
InfoMsg == "info: all documents were indexed"

\* C32: the reconciliation logs the "No documents were indexed" error only
\* when the index holds no document, and the "All documents were
\* successfully indexed" message only when every source row was accepted.
C32_MessagesTellTheTruth ==
    (pc = "Done" /\ kind \in 1..Len(Kinds)) =>
        /\ (ErrorMsg \in log) => es[kind].docs = {}
        /\ (InfoMsg \in log) =>
              es[kind].docs = {document_id(df[n].id, index_timestamp) : n \in DOMAIN df}

----------------------------------------------------------------------------
(* The refresh before the reconciliation *)

\* C33: in every pass that dispatched at least one document, a bulk request
\* with refresh=true has been issued when the final count is read, also
\* when every row of the final batch failed mapping or serialization.
C33_RefreshBeforeCount ==
    (pc \in {"Reconciling", "Done"} /\ kind \in 1..Len(Kinds) /\ sent > 0) =>
        \E i \in DOMAIN trace : trace[i] = BulkCall(kind, TRUE)

----------------------------------------------------------------------------
(* The indexes of the write paths *)

\* the index a document of index type t belongs to
HomeIndex(t) == get_index_name(t)

\* C34: for every entity kind the add, batch add and sync-by-id paths write
\* to the index that the full pass of the kind creates and fills, and no
\* path writes documents of one kind into the index of another kind.
C34_OneIndexPerKind ==
    /\ \A i \in DOMAIN trace :
          trace[i][1] = "es_client.index" => trace[i][2] = HomeIndex(trace[i][3])
    /\ \A name \in DOMAIN es : \A d \in es[name].docs :
          d[1] \in {IndexType(k) : k \in IndexIds} => name = HomeIndex(d[1])

----------------------------------------------------------------------------
(* The connector swallows the exceptions of the client *)

\* the results of the connector calls of the given operation whose client
\* call raised
ResultsOnFault(op) ==
    {trace[i][4] : i \in {j \in DOMAIN trace :
                            /\ trace[j][1] = "returned"
                            /\ trace[j][2] = op
                            /\ trace[j][3]}}

\* C35: bulk_index, get_document_count, index_document and search never
\* raise: when the client raises they return (0, []), 0, None and an
\* empty-hits result, and a pass whose bulk request or count failed goes on
\* instead of failing.
C35_ConnectorNeverRaises ==
    /\ [][BulkFailedWhole =>
             /\ successful_docs' = successful_docs
             /\ failed_docs' = failed_docs
             /\ pc' \in {"MappingBatch", "Reconciling"}]_vars
    /\ [][(pc \in {"Upserting", "Reconciling"}) => pc' # "Failed"]_vars
    /\ [](ResultsOnFault("get_document_count") \subseteq {0})
    /\ [](ResultsOnFault("index_document") \subseteq {None})
    /\ [](ResultsOnFault("search") \subseteq {EmptyHits})

\* a pass went through a failed bulk request and returned; afterwards
\* index_document and search were called while the client raised
C35_Witness ==
    /\ pc = "Done"
    /\ last_bulk.raised
    /\ ResultsOnFault("index_document") # {}
    /\ ResultsOnFault("search") # {}

\* the final count of a pass was read while the client raised
C35_CountWitness ==
    /\ pc = "Done"
    /\ es[kind].visible # {}
    /\ final_count = 0
    /\ ResultsOnFault("get_document_count") = {0}

----------------------------------------------------------------------------
(* The answer of add_tickets_batch *)

\* the positions in trace of the batch requests for tickets
TicketBatches ==
    {i \in DOMAIN trace : trace[i] \in {<<"request", "batch", DefaultIndexType, items>> :
                                          items \in UNION {[1..n -> ItemOutcomes(TicketKind)] : n \in 1..MaxItems}}}

\* the position of the response to the request at position i
ResponseTo(i) ==
    CHOOSE j \in (i + 1)..Len(trace) :
        /\ trace[j][1] = "response"
        /\ \A m \in (i + 1)..(j - 1) : trace[m][1] # "response"

\* the item at position n of the request at i was indexed before the answer
IndexedFor(i, n) ==
    \E m \in (i + 1)..(ResponseTo(i) - 1) :
        trace[m] = ClientIndexCall(get_index_name(DefaultIndexType), TicketKind, ItemId(n), "ok")

\* the request at i was answered as the counters and the list of results
\* of its loop require
AnsweredInFull(i) ==
    LET items == trace[i][4]
        status == trace[ResponseTo(i)][4]
        body == trace[ResponseTo(i)][5]
    IN /\ body.successful + body.failed = Len(items)
       /\ Len(body.results) = Len(items)
       /\ \A n \in DOMAIN items :
             /\ body.results[n].id = ItemId(n)
             /\ body.results[n].status = (IF items[n] = "ok" THEN "success" ELSE "error")
             /\ items[n] = "ok" => IndexedFor(i, n)
       /\ status = (IF body.failed = 0 THEN 200 ELSE 207)

\* C36: add_tickets_batch on a non-empty list: successful + failed equals
\* the number of items, results holds one entry per item in input order, a
\* failing item does not prevent later items from being indexed, and the
\* status is 200 exactly when failed = 0 and 207 otherwise.
C36_BatchAnswer == \A i \in TicketBatches : AnsweredInFull(i)

----------------------------------------------------------------------------
(* The generic table sync reaches every row once *)

\* the bulk requests sent so far
Dispatched == SelectSeq(trace, LAMBDA e : e[1] = "bulk")

\* the number of documents in the first n of them
RECURSIVE DispatchedCount(_)
DispatchedCount(n) == IF n = 0 THEN 0 ELSE DispatchedCount(n - 1) + Len(Dispatched[n][3])

\* the bulk requests that carry the row
RequestsWith(row) ==
    {n \in DOMAIN Dispatched : \E i \in DOMAIN Dispatched[n][3] : Dispatched[n][3][i] = row}

\* C37: sync_table_to_elasticsearch terminates for any finite table: the
\* offset advances by the length of each page, the loop stops at the first
\* empty page, and over a table that does not change every row is included
\* in exactly one bulk request, so that the number of dispatched documents
\* equals the row count of the table.
C37_EveryRowOnce ==
    /\ <>(pc \in {"Done", "Failed"})
    /\ [][(pc = "Dispatching" /\ pc' = "Paging") => batch_start' = batch_start + Len(df)]_vars
    /\ [][(pc = "Paging" /\ df' = <<>>) => pc' = "Done"]_vars
    /\ [](pc = "Done" =>
            /\ DispatchedCount(Len(Dispatched)) = Cardinality(db.table)
            /\ \A row \in db.table : Cardinality(RequestsWith(row)) = 1)
====
